---- MODULE Spec2Model ----
(***************************************************************************)
(* Model of the token resolution pipeline of dispersa                      *)
(* (TokenPipeline.resolve and TokenPipeline.resolveAllPermutations).       *)
(*                                                                         *)
(* One resolver document is modelled: a set "core" (file CoreFile)         *)
(* followed by a modifier with NumContexts contexts (context c is read     *)
(* from file c).  Token documents hold the tokens "a" and "b".  The core   *)
(* file sets a to a literal and b to a value chosen at construction; the   *)
(* file of context c overrides a.                                          *)
(*                                                                         *)
(* An action is what runs between two awaits: the callback of a            *)
(* permutation is resumed, runs to its next await or to its return, and    *)
(* nothing else runs in between.                                           *)
(***************************************************************************)
EXTENDS Integers, Sequences, FiniteSets, TLC

\* Number of contexts of the modifier, i.e. of permutations.
NumContexts == 2

Contexts == 1..NumContexts
\* File c holds the tokens of context c; the file after them those of the set.
CoreFile == NumContexts + 1
Files == Contexts \cup {CoreFile}
Names == {"a", "b"}

(***************************************************************************)
(* Token values.                                                           *)
(***************************************************************************)
Absent == [kind |-> "absent", to |-> "-", n |-> 0]
\* a literal value
Lit(n) == [kind |-> "lit", to |-> "-", n |-> n]
\* the alias string "{t}"
Alias(t) == [kind |-> "alias", to |-> t, n |-> 0]
\* a $value that is, as a whole, the object { "$ref": "#/t/$value" }
Ref(t) == [kind |-> "ref", to |-> t, n |-> 0]
\* a composite $value one of whose sub-fields is { "$ref": "#/t/$value/..." }
PropRef(t) == [kind |-> "propref", to |-> t, n |-> 0]
\* a $value that is, as a whole, { "$ref": "./gone.json" }, a file not on disk
FileRef == [kind |-> "fileref", to |-> "./gone.json", n |-> 0]
\* a raised error, as a value
Err(k) == [kind |-> "error", to |-> k, n |-> 0]

IsErr(v) == v.kind = "error"

\* The values the core file may give to token b ("zz" names no token).
BValues ==
    {Lit(5), Alias("a"), Alias("b"), Alias("zz"),
     Ref("a"), Ref("b"), Ref("zz"), FileRef, PropRef("a"), PropRef("zz")}

EmptyDoc == [n \in Names |-> Absent]

\* What is on disk (a missing file is decided by cfg.missing).
FileContent(f, coreB) ==
    IF f = CoreFile
    THEN [n \in Names |-> IF n = "a" THEN Lit(0) ELSE coreB]
    ELSE [n \in Names |-> IF n = "a" THEN Lit(f) ELSE Absent]

\* The file that may be missing on disk (NoFile: every file is there).
NoFile == CoreFile + 1

\* The sources named by resolutionOrder for the permutation of context c.
Sources(c) == <<CoreFile, c>>

(***************************************************************************)
(* Object identities: parsed files, merged documents, resolved documents.  *)
(***************************************************************************)
NoObj == [k |-> "none", c |-> 0, i |-> 0]
\* the object JSON.parse returned to loader p for file f
FileObj(p, f) == [k |-> "file", c |-> p, i |-> f]
\* the merged document built for task p
DocObj(p) == [k |-> "doc", c |-> 0, i |-> p]
\* the document returned by reference resolution for task p
ResObj(p) == [k |-> "res", c |-> 0, i |-> p]

Tasks == Contexts
ObjIds ==
    {FileObj(p, f) : p \in Tasks, f \in Files}
        \cup {DocObj(p) : p \in Tasks} \cup {ResObj(p) : p \in Tasks}

(***************************************************************************)
(* Deep last-wins merge of ordered documents.                              *)
(***************************************************************************)
RECURSIVE mergeDocuments(_)
mergeDocuments(docs) ==
    IF Len(docs) = 0 THEN EmptyDoc
    ELSE LET rest == mergeDocuments(SubSeq(docs, 1, Len(docs) - 1))
             last == docs[Len(docs)]
         IN  [n \in Names |-> IF last[n] # Absent THEN last[n] ELSE rest[n]]

(***************************************************************************)
(* Reference resolver, document pass: every whole-value $ref is replaced   *)
(* by its referent, following chains; a missing pointer, a missing file or *)
(* a cycle raises.                                                         *)
(* Property-level references survive into the flat form.                   *)
(***************************************************************************)
RECURSIVE derefPointer(_, _, _)
derefPointer(doc, t, seen) ==
    IF t \notin Names THEN Err("TokenReferenceError")
    ELSE IF doc[t] = Absent THEN Err("TokenReferenceError")
    ELSE IF t \in seen THEN Err("CircularReferenceError")
    ELSE IF doc[t].kind = "ref" THEN derefPointer(doc, doc[t].to, seen \cup {t})
    ELSE IF doc[t].kind = "fileref" THEN Err("FileOperationError")
    ELSE doc[t]

resolveDeepTokenDocument(doc) ==
    LET out == [n \in Names |->
                   IF doc[n].kind = "ref" THEN derefPointer(doc, doc[n].to, {})
                   ELSE IF doc[n].kind = "fileref" THEN Err("FileOperationError")
                   ELSE doc[n]]
        bad == {n \in Names : IsErr(out[n])}
    IN  IF bad = {} THEN [ok |-> TRUE, doc |-> out, error |-> "-"]
        ELSE [ok |-> FALSE, doc |-> doc,
              error |-> out[CHOOSE n \in bad : TRUE].to]

(***************************************************************************)
(* Token parser: a node with $value is emitted under its dot-path, with    *)
(* originalValue the value before alias expansion.                         *)
(***************************************************************************)
flatten(doc) ==
    [n \in {m \in Names : doc[m] # Absent} |->
        [name |-> n, value |-> doc[n], originalValue |-> doc[n]]]

(***************************************************************************)
(* Alias resolver: alias strings and property-level references are         *)
(* replaced by the referenced token's value.  The chain of a token is      *)
(* followed under a visited set of names, the trail; a chain that comes    *)
(* back to a name of its trail is a cycle, whatever its length, and a      *)
(* chain of more hops than the depth bound is rejected as well.            *)
(* A property-level reference is a pointer ("#/...") in a sub-field of a   *)
(* composite value; an object that is neither is left as it is.            *)
(***************************************************************************)
DEFAULT_MAX_ALIAS_DEPTH == 10

Range(s) == {s[i] : i \in DOMAIN s}

\* the one element of a singleton
Only(S) == CHOOSE x \in S : TRUE

IsAlias(v) == v.kind \in {"alias", "propref"}

\* The trail of a chain: the names visited from the first of trail on, up
\* to a token whose value is no alias, or whose alias names no token, or up
\* to the first name met twice.
RECURSIVE aliasChain(_, _)
aliasChain(flat, trail) ==
    Only({LET v == flat[t[Len(t)]].value
          IN  IF ~IsAlias(v) THEN t
              ELSE IF v.to \notin DOMAIN flat THEN t
              ELSE IF v.to \in Range(t) THEN Append(t, v.to)
              ELSE aliasChain(flat, Append(t, v.to)) : t \in {trail}})

\* the hops of a trail
Hops(trail) == Len(trail) - 1

\* The depth bound is looked at before the visited set: a chain is cut at
\* the first hop beyond the bound.
resolveAliasDepthFirst(flat, name, maxDepth) ==
    LET trail == aliasChain(flat, <<name>>)
        cut == SubSeq(trail, 1, maxDepth + 2)
        last == flat[trail[Len(trail)]].value
    IN  IF Hops(trail) > maxDepth
        THEN [result |-> Err("CircularReferenceError"), trail |-> cut]
        ELSE IF Hops(trail) > 0 /\ trail[Len(trail)] \in Range(SubSeq(trail, 1, Hops(trail)))
        THEN [result |-> Err("CircularReferenceError"), trail |-> trail]
        ELSE IF IsAlias(last)
        THEN [result |-> Err("TokenReferenceError"), trail |-> trail]
        ELSE [result |-> last, trail |-> trail]

\* The value of token name with its aliases expanded, or the error raised,
\* and the trail followed.
resolveAlias(flat, name, maxDepth) ==
    LET trail == aliasChain(flat, <<name>>)
        cut == SubSeq(trail, 1, maxDepth + 2)
        last == flat[trail[Len(trail)]].value
    IN  IF Hops(trail) > 0 /\ trail[Len(trail)] \in Range(SubSeq(trail, 1, Hops(trail)))
        THEN [result |-> Err("CircularReferenceError"), trail |-> trail]
        ELSE IF Hops(trail) > maxDepth
        THEN [result |-> Err("CircularReferenceError"), trail |-> cut]
        ELSE IF IsAlias(last)
        THEN [result |-> Err("TokenReferenceError"), trail |-> trail]
        ELSE [result |-> last, trail |-> trail]

aliasResolve(flat) ==
    LET out == [n \in DOMAIN flat |->
                   resolveAlias(flat, n, DEFAULT_MAX_ALIAS_DEPTH).result]
        bad == {n \in DOMAIN flat : IsErr(out[n])}
    IN  IF bad = {}
        THEN [ok |-> TRUE,
              tokens |-> [n \in DOMAIN flat |-> [flat[n] EXCEPT !.value = out[n]]],
              error |-> "-"]
        ELSE [ok |-> FALSE, tokens |-> flat,
              error |-> out[CHOOSE n \in bad : TRUE].to]

(***************************************************************************)
(* Filters and transforms.  A filter is the set of names it includes; the  *)
(* filters of a list are a logical AND.  A transform has a matcher and a   *)
(* mapping; "bump" rewrites literal values, "throwOnB" raises on token b,  *)
(* "throwOnOne" raises on the value 1.                                     *)
(***************************************************************************)
PassesAll(n, filterList) == \A i \in 1..Len(filterList) : n \in filterList[i]

applyFilters(tokens, filterList) ==
    [n \in {m \in DOMAIN tokens : PassesAll(m, filterList)} |-> tokens[n]]

Matches(tr, tok) == IF tr = "bump" THEN tok.value.kind = "lit" ELSE TRUE

Throws(tr, tok) ==
    \/ tr = "throwOnB" /\ tok.name = "b"
    \/ tr = "throwOnOne" /\ tok.value = Lit(1)

RECURSIVE transformToken(_, _)
transformToken(tok, transformList) ==
    IF Len(transformList) = 0 THEN tok
    ELSE LET tr == Head(transformList)
             next == IF tr = "bump" /\ Matches(tr, tok)
                     THEN [tok EXCEPT !.value = Lit(tok.value.n + 10)]
                     ELSE tok
         IN  transformToken(next, Tail(transformList))

RECURSIVE throwsOn(_, _)
throwsOn(tok, transformList) ==
    IF Len(transformList) = 0 THEN FALSE
    ELSE \/ (Matches(Head(transformList), tok) /\ Throws(Head(transformList), tok))
         \/ throwsOn(tok, Tail(transformList))

applyTransforms(tokens, transformList) ==
    [ok |-> \A n \in DOMAIN tokens : ~throwsOn(tokens[n], transformList),
     tokens |-> [n \in DOMAIN tokens |-> transformToken(tokens[n], transformList)],
     invoked |-> {n \in DOMAIN tokens :
                     \E i \in 1..Len(transformList) :
                         Matches(transformList[i], tokens[n])}]

(***************************************************************************)
(* State.                                                                  *)
(***************************************************************************)
VARIABLES
    cfg,        \* the call and its arguments, the validation mode, the disk
    phase,      \* of the call: "loadResolver", "running", "fulfilled", "rejected"
    task,       \* per permutation: the async callback's position and locals
    values,     \* the slots of Promise.all
    rejection,  \* the error the call rejected with
    cache,      \* per file cache: file -> parsed object
    inflight,   \* per file cache: the loads in flight
    visited,    \* per reference resolver: the URIs being resolved
    heap,       \* object -> contents
    loadCount,  \* per file: how often it was read from disk and parsed
    warnings,   \* what reached the onWarning sink
    input,      \* the arguments of a renderer, bundler or resolver call
    run         \* that call's position, locals and result

pipelineVars ==
    <<cfg, phase, task, values, rejection, cache, inflight, visited, heap,
      loadCount, warnings>>

vars == <<pipelineVars, input, run>>

\* no call of a renderer, bundler or resolver is being followed
NoInput == [call |-> "-"]
NoRun == [pc |-> "-"]

Modes == {"error", "warn", "off"}

\* The plugin lists a call is made with.
PluginChoices ==
    {[pre |-> <<>>, filters |-> <<>>, transforms |-> <<>>],
     [pre |-> <<"bumpA">>, filters |-> <<{"a", "b"}, {"a"}>>,
      transforms |-> <<"bump", "throwOnB">>],
     [pre |-> <<>>, filters |-> <<>>, transforms |-> <<"bump", "throwOnB">>],
     [pre |-> <<"throws">>, filters |-> <<>>, transforms |-> <<"bump">>],
     [pre |-> <<>>, filters |-> <<{"b"}>>, transforms |-> <<"bump">>],
     [pre |-> <<>>, filters |-> <<>>, transforms |-> <<"throwOnOne">>]}

\* optional parameter left out
Undefined == 0
DiscoveryEngine == NumContexts + 1
SharedCacheId == NumContexts + 2
EngineIds == Tasks \cup {DiscoveryEngine}
CacheIds == EngineIds \cup {SharedCacheId}

NoTokens == [n \in {} |-> Absent]
NoFailure == [stage |-> "-", kind |-> "-"]
NoValue == [set |-> FALSE, tokens |-> NoTokens, modifierInputs |-> 0]
NoEngine == [cache |-> Undefined, visited |-> Undefined]

IdleTask ==
    [pc |-> "idle", idx |-> 0, inputs |-> 0, engine |-> NoEngine,
     src |-> [i |-> 0, st |-> "-"], got |-> <<>>, doc |-> NoObj,
     tokens |-> NoTokens, referenceResolution |-> "-", log |-> <<>>,
     invoked |-> {}, failure |-> NoFailure]

(***************************************************************************)
(* TokenPipeline.                                                          *)
(***************************************************************************)
\* createEngine forgetting the cache it is given
createEngineOwnCache(e, sharedCache) == [cache |-> e, visited |-> e]

\* createEngine keeping the visited set with the cache
createEngineVisitedOnCache(e, sharedCache) ==
    [cache |-> IF sharedCache = Undefined THEN e ELSE sharedCache,
     visited |-> IF sharedCache = Undefined THEN e ELSE sharedCache]

\* Stage 2: a new ReferenceResolver (own visited set) on the shared cache
\* when one is given, else on a cache of its own.
createEngine(e, sharedCache) ==
    [cache |-> IF sharedCache = Undefined THEN e ELSE sharedCache,
     visited |-> e]

\* every permutation resolving with the discovery engine
EngineForDiscovery(p) == DiscoveryEngine

\* The engine a permutation task resolves with: one per permutation.
EngineFor(p) == p

\* transforms called before filters
StagesTransformsFirst ==
    <<"resolveTokens", "preprocessTokens", "resolveReferences", "flattenTokens",
      "resolveAliases", "applyTransformStage", "applyFilterStage">>

\* the reference pass called before the preprocessors
StagesReferencesFirst ==
    <<"resolveTokens", "resolveReferences", "preprocessTokens", "flattenTokens",
      "resolveAliases", "applyFilterStage", "applyTransformStage">>

\* The stages a permutation runs through, in the order of the calls.
PipelineStages ==
    <<"resolveTokens", "preprocessTokens", "resolveReferences", "flattenTokens",
      "resolveAliases", "applyFilterStage", "applyTransformStage">>

\* The stages that are awaited.
AsyncStages == {"resolveTokens", "preprocessTokens", "resolveReferences"}

\* ResolutionEngine.generatePermutations: one modifier, its contexts in order.
generatePermutations == [i \in Contexts |-> i]

Fail(t, stage, kind) ==
    [t EXCEPT !.pc = "failed", !.failure = [stage |-> stage, kind |-> kind]]

Started(t, stage) == [t EXCEPT !.log = Append(@, <<"start", stage>>)]
Ended(t, stage) == [t EXCEPT !.log = Append(@, <<"end", stage>>)]

\* Stage 6
flattenTokens(t, h) == Ended([t EXCEPT !.tokens = flatten(h[t.doc])], "flattenTokens")

\* Stage 7
resolveAliases(t) ==
    LET r == aliasResolve(t.tokens)
    IN  IF r.ok THEN Ended([t EXCEPT !.tokens = r.tokens], "resolveAliases")
        ELSE Fail(t, "resolveAliases", r.error)

\* Stage 8
applyFilterStage(t, filterList) ==
    Ended([t EXCEPT !.tokens = IF Len(filterList) > 0
                               THEN applyFilters(@, filterList) ELSE @],
          "applyFilterStage")

\* Stage 9
applyTransformStage(t, transformList) ==
    IF Len(transformList) > 0
    THEN LET r == applyTransforms(t.tokens, transformList)
         IN  IF r.ok
             THEN Ended([t EXCEPT !.tokens = r.tokens,
                                  !.invoked = @ \cup r.invoked],
                        "applyTransformStage")
             ELSE Fail([t EXCEPT !.invoked = @ \cup r.invoked],
                       "applyTransformStage", "TransformError")
    ELSE Ended(t, "applyTransformStage")

RunSync(stage, t, h, c) ==
    IF stage = "flattenTokens" THEN flattenTokens(t, h)
    ELSE IF stage = "resolveAliases" THEN resolveAliases(t)
    ELSE IF stage = "applyFilterStage" THEN applyFilterStage(t, c.plugins.filters)
    ELSE applyTransformStage(t, c.plugins.transforms)

\* The callback from its i-th stage on, up to the next await or its return:
\* nothing else runs in between.
RECURSIVE Continue(_, _, _, _)
Continue(t, i, h, c) ==
    IF t.pc = "failed" THEN t
    ELSE IF i > Len(PipelineStages) THEN [t EXCEPT !.pc = "done", !.idx = i]
    ELSE LET stage == PipelineStages[i]
         IN  IF stage \in AsyncStages
             THEN [Started(t, stage) EXCEPT
                      !.pc = stage, !.idx = i,
                      !.src = IF stage = "resolveTokens"
                              THEN [i |-> 1, st |-> "enter"] ELSE @]
             ELSE Continue(RunSync(stage, Started(t, stage), h, c), i + 1, h, c)

\* values collected in the order the promises fulfil
PromiseAllByCompletion(vals, i, v) ==
    [vals EXCEPT ![CHOOSE j \in DOMAIN vals :
                      /\ ~vals[j].set
                      /\ \A k \in DOMAIN vals : k < j => vals[k].set] = v]

\* Promise.all keeps the value of the i-th promise in the i-th slot.
PromiseAllFulfil(vals, i, v) == [vals EXCEPT ![i] = v]

ResultOf(t) == [set |-> TRUE, tokens |-> t.tokens, modifierInputs |-> t.inputs]

\* The tasks the call waits for.
Awaited(c) == IF c.call = "resolve" THEN {1} ELSE Tasks

\* What a step of task p that leaves it as t means for the call.
Settle(p, t) ==
    LET vals == IF t.pc = "done" THEN PromiseAllFulfil(values, p, ResultOf(t))
                ELSE values
    IN  /\ task' = [task EXCEPT ![p] = t]
        /\ values' = vals
        /\ phase' = IF phase # "running" THEN phase
                    ELSE IF t.pc = "failed" THEN "rejected"
                    ELSE IF \A q \in Awaited(cfg) : vals[q].set THEN "fulfilled"
                    ELSE "running"
        /\ rejection' = IF phase = "running" /\ t.pc = "failed"
                        THEN t.failure ELSE rejection

Init ==
    /\ cfg \in {c \in [call : {"resolve", "resolveAllPermutations"},
                       inputs : Contexts, mode : Modes, coreB : BValues,
                       missing : Files \cup {NoFile}, plugins : PluginChoices] :
                  c.call = "resolveAllPermutations" => c.inputs = 1}
    /\ phase = "loadResolver"
    /\ task = [p \in Tasks |-> IdleTask]
    /\ values = [p \in Tasks |-> NoValue]
    /\ rejection = NoFailure
    /\ cache = [c \in CacheIds |-> [f \in Files |-> NoObj]]
    /\ inflight = [c \in CacheIds |-> {}]
    /\ visited = [e \in CacheIds |-> {}]
    /\ heap = [o \in ObjIds |-> EmptyDoc]
    /\ loadCount = [f \in Files |-> 0]
    /\ warnings = {}
    /\ input = NoInput
    /\ run = NoRun

\* Stage 1 returns.  resolve goes on with one engine of its own;
\* resolveAllPermutations maps the permutations to callbacks, each with its
\* own engine on the shared cache, and every callback runs to its first await.
StartTask(p, inputs, engine) ==
    Continue([IdleTask EXCEPT !.inputs = inputs, !.engine = engine], 1, heap, cfg)

\* the permutations mapped to their callbacks before the resolver is awaited
LoadResolverFailsAfterStart ==
    /\ phase = "loadResolver"
    /\ phase' = "rejected"
    /\ rejection' = [stage |-> "loadResolver", kind |-> "ValidationError"]
    /\ task' = [p \in Tasks |->
                    IF p \in Awaited(cfg)
                    THEN StartTask(p, generatePermutations[p],
                                   createEngine(EngineFor(p), SharedCacheId))
                    ELSE task[p]]
    /\ UNCHANGED <<input, run, cfg, values, cache, inflight, visited, heap, loadCount,
                   warnings>>

\* Stage 1 raises: the call rejects before any permutation is started.
LoadResolverFails ==
    /\ phase = "loadResolver"
    /\ phase' = "rejected"
    /\ rejection' = [stage |-> "loadResolver", kind |-> "ValidationError"]
    /\ UNCHANGED <<input, run, cfg, task, values, cache, inflight, visited, heap, loadCount,
                   warnings>>

LoadResolverReturns ==
    /\ phase = "loadResolver"
    /\ phase' = "running"
    /\ task' = IF cfg.call = "resolve"
               THEN [task EXCEPT ![1] = StartTask(1, cfg.inputs,
                                                  createEngine(1, Undefined))]
               ELSE [p \in Tasks |->
                        StartTask(p, generatePermutations[p],
                                  createEngine(EngineFor(p), SharedCacheId))]
    /\ UNCHANGED <<input, run, cfg, values, rejection, cache, inflight, visited, heap,
                   loadCount, warnings>>
(***************************************************************************)
(* Stage 3: the sources of the permutation are read through the engine's   *)
(* reference resolver and merged.                                          *)
(***************************************************************************)
\* readJSONFile: a file that cannot be accessed raises FileOperationError.
readJSONFile(f, c) ==
    IF f = c.missing THEN [ok |-> FALSE, error |-> "FileOperationError"]
    ELSE [ok |-> TRUE, error |-> "-"]

\* the later sources merged into the parsed object of the first
mergeIntoFirstSource(h, p, objs) ==
    [heap |-> [h EXCEPT ![objs[1]] =
                  mergeDocuments([i \in 1..Len(objs) |-> h[objs[i]]])],
     doc |-> objs[1]]

\* The merge builds a document of the permutation's own.
mergeSources(h, p, objs) ==
    [heap |-> [h EXCEPT ![DocObj(p)] =
                  mergeDocuments([i \in 1..Len(objs) |-> h[objs[i]]])],
     doc |-> DocObj(p)]

\* Task p has the parsed object of its current source: on to the next
\* source, or, after the last one, merge and go on with the pipeline.
Acquire(p, t, obj, h) ==
    LET got == Append(t.got, obj)
    IN  IF t.src.i < Len(Sources(t.inputs))
        THEN [t |-> [t EXCEPT !.got = got, !.src = [i |-> @.i + 1, st |-> "enter"]],
              heap |-> h]
        ELSE LET m == mergeSources(h, p, got)
                 done == Ended([t EXCEPT !.got = got, !.src = [i |-> 0, st |-> "-"],
                                         !.doc = m.doc],
                               "resolveTokens")
             IN  [t |-> Continue(done, t.idx + 1, m.heap, cfg), heap |-> m.heap]

CurrentFile(t) == Sources(t.inputs)[t.src.i]

\* The reference resolver is asked for a source: a URI it is already
\* resolving is a cycle; a cached file is taken from the cache; a file being
\* loaded is awaited; else the task starts the load.
EnterSource(p) ==
    LET t == task[p]
        f == CurrentFile(t)
        vid == t.engine.visited
        cid == t.engine.cache
    IN  /\ t.pc = "resolveTokens" /\ t.src.st = "enter"
        /\ IF f \in visited[vid]
           THEN /\ Settle(p, Fail(t, "resolveTokens", "CircularReferenceError"))
                /\ UNCHANGED <<cache, inflight, visited, heap, loadCount>>
           ELSE IF cache[cid][f] # NoObj
           THEN LET a == Acquire(p, t, cache[cid][f], heap)
                IN  /\ Settle(p, a.t)
                    /\ heap' = a.heap
                    /\ UNCHANGED <<cache, inflight, visited, loadCount>>
           ELSE IF f \in inflight[cid]
           THEN /\ Settle(p, [t EXCEPT !.src.st = "await"])
                /\ visited' = [visited EXCEPT ![vid] = @ \cup {f}]
                /\ UNCHANGED <<cache, inflight, heap, loadCount>>
           ELSE /\ Settle(p, [t EXCEPT !.src.st = "reading"])
                /\ visited' = [visited EXCEPT ![vid] = @ \cup {f}]
                /\ inflight' = [inflight EXCEPT ![cid] = @ \cup {f}]
                /\ UNCHANGED <<cache, heap, loadCount>>
        /\ UNCHANGED <<input, run, cfg, warnings>>

\* The read of the loading task returns: the parsed object is cached, or the
\* load fails.
ReadFile(p) ==
    LET t == task[p]
        f == CurrentFile(t)
        vid == t.engine.visited
        cid == t.engine.cache
        r == readJSONFile(f, cfg)
    IN  /\ t.pc = "resolveTokens" /\ t.src.st = "reading"
        /\ inflight' = [inflight EXCEPT ![cid] = @ \ {f}]
        /\ visited' = [visited EXCEPT ![vid] = @ \ {f}]
        /\ IF r.ok
           THEN LET h == [heap EXCEPT ![FileObj(p, f)] = FileContent(f, cfg.coreB)]
                    a == Acquire(p, t, FileObj(p, f), h)
                IN  /\ cache' = [cache EXCEPT ![cid][f] = FileObj(p, f)]
                    /\ loadCount' = [loadCount EXCEPT ![f] = @ + 1]
                    /\ heap' = a.heap
                    /\ Settle(p, a.t)
           ELSE /\ Settle(p, Fail(t, "resolveTokens", r.error))
                /\ UNCHANGED <<cache, heap, loadCount>>
        /\ UNCHANGED <<input, run, cfg, warnings>>

\* The load a task awaited has ended.
AwaitInFlight(p) ==
    LET t == task[p]
        f == CurrentFile(t)
        vid == t.engine.visited
        cid == t.engine.cache
    IN  /\ t.pc = "resolveTokens" /\ t.src.st = "await"
        /\ f \notin inflight[cid]
        /\ visited' = [visited EXCEPT ![vid] = @ \ {f}]
        /\ IF cache[cid][f] # NoObj
           THEN LET a == Acquire(p, t, cache[cid][f], heap)
                IN  /\ heap' = a.heap
                    /\ Settle(p, a.t)
           ELSE /\ Settle(p, Fail(t, "resolveTokens", "FileOperationError"))
                /\ UNCHANGED heap
        /\ UNCHANGED <<input, run, cfg, cache, inflight, loadCount, warnings>>

(***************************************************************************)
(* Stage 4: preprocessors, in list order, over the raw merged document.    *)
(* "bumpA" rewrites token a in the document it is handed and returns it;   *)
(* "throws" raises.                                                        *)
(***************************************************************************)
BumpA(d) == [d EXCEPT !["a"] = IF @.kind = "lit" THEN Lit(@.n + 20) ELSE @]

RECURSIVE applyPreprocessors(_, _, _)
applyPreprocessors(h, doc, preprocessorList) ==
    IF Len(preprocessorList) = 0 THEN [ok |-> TRUE, heap |-> h]
    ELSE IF Head(preprocessorList) = "throws" THEN [ok |-> FALSE, heap |-> h]
    ELSE applyPreprocessors([h EXCEPT ![doc] = BumpA(@)], doc,
                            Tail(preprocessorList))

preprocessTokens(h, doc, preprocessorList) ==
    IF Len(preprocessorList) > 0 THEN applyPreprocessors(h, doc, preprocessorList)
    ELSE [ok |-> TRUE, heap |-> h]

Preprocess(p) ==
    LET t == task[p]
        r == preprocessTokens(heap, t.doc, cfg.plugins.pre)
    IN  /\ t.pc = "preprocessTokens"
        /\ heap' = r.heap
        /\ IF r.ok
           THEN Settle(p, Continue(Ended(t, "preprocessTokens"), t.idx + 1,
                                   r.heap, cfg))
           ELSE Settle(p, Fail(t, "preprocessTokens", "PreprocessorError"))
        /\ UNCHANGED <<input, run, cfg, cache, inflight, visited, loadCount, warnings>>

(***************************************************************************)
(* Stage 5: reference pass over the preprocessed document.                 *)
(***************************************************************************)
\* ValidationHandler.handleIssue: raises in mode error, warns in mode warn.
handleIssue(mode, p, error) ==
    [throws |-> mode = "error",
     warned |-> IF mode = "warn" THEN {[task |-> p, text |-> error]} ELSE {}]

\* ValidationHandler.warn: reaches the onWarning sink unless the mode is off.
warn(mode, p, text) ==
    IF mode = "off" THEN {} ELSE {[task |-> p, text |-> text]}

\* the catch block raising the error again
handleReferenceResolutionErrorRethrows(t, mode, p, error) ==
    [t |-> Fail(t, "resolveReferences", error), warned |-> {}]

\* The catch block of resolveReferences.
handleReferenceResolutionError(t, mode, p, error) ==
    LET issue == handleIssue(mode, p, error)
    IN  IF issue.throws
        THEN [t |-> Fail(t, "resolveReferences", error), warned |-> issue.warned]
        ELSE [t |-> Ended([t EXCEPT !.referenceResolution = "skipped"],
                          "resolveReferences"),
              warned |-> issue.warned
                             \cup warn(mode, p, "Reference resolution skipped")]

ResolveReferences(p) ==
    LET t == task[p]
        r == resolveDeepTokenDocument(heap[t.doc])
        h == [heap EXCEPT ![ResObj(p)] = r.doc]
        e == handleReferenceResolutionError(t, cfg.mode, p, r.error)
    IN  /\ t.pc = "resolveReferences"
        /\ IF r.ok
           THEN /\ heap' = h
                /\ warnings' = warnings
                /\ Settle(p, Continue(
                       Ended([t EXCEPT !.doc = ResObj(p),
                                       !.referenceResolution = "resolved"],
                             "resolveReferences"),
                       t.idx + 1, h, cfg))
           ELSE /\ heap' = heap
                /\ warnings' = warnings \cup e.warned
                /\ Settle(p, Continue(e.t, t.idx + 1, heap, cfg))
        /\ UNCHANGED <<input, run, cfg, cache, inflight, visited, loadCount>>

Next ==
    \/ LoadResolverFails
    \/ LoadResolverReturns
    \/ \E p \in Tasks : EnterSource(p)
    \/ \E p \in Tasks : ReadFile(p)
    \/ \E p \in Tasks : AwaitInFlight(p)
    \/ \E p \in Tasks : Preprocess(p)
    \/ \E p \in Tasks : ResolveReferences(p)

Spec == Init /\ [][Next]_vars
(***************************************************************************)
(* Properties.                                                             *)
(***************************************************************************)
Settled(t) == t.pc \in {"done", "failed"}

AllPermutations == cfg.call = "resolveAllPermutations"

\* C1: when one permutation of resolveAllPermutations fails in its stages,
\* the call does not abort: once every permutation has settled, the call has
\* returned the tokens of the permutations that completed.
C1_SiblingsSurvive ==
    (/\ AllPermutations
     /\ \A p \in Tasks : Settled(task[p])
     /\ \E p \in Tasks : task[p].pc = "failed"
     /\ \E p \in Tasks : task[p].pc = "done")
        => phase = "fulfilled"

\* C2: under resolveAllPermutations every file is read from disk at most
\* once, whatever the number of permutations that miss the cache for it, and
\* a cache entry, once written, is never replaced.
C2_SingleFlight ==
    [][AllPermutations =>
          /\ \A f \in Files : loadCount'[f] <= 1
          /\ \A c \in CacheIds : \A f \in Files :
                 cache[c][f] # NoObj => cache'[c][f] = cache[c][f]]_vars

\* Two permutations miss the cache for the same file at the same time: one
\* reads it, the other awaits that read.
C2_Witness ==
    \E p \in Tasks : \E q \in Tasks \ {p} :
        /\ task[p].src.st = "reading" /\ task[q].src.st = "await"
        /\ CurrentFile(task[p]) = CurrentFile(task[q])
        /\ task[p].engine.cache = task[q].engine.cache

\* C3: the i-th slot of the list of resolveAllPermutations only ever holds
\* the result of the i-th permutation of generatePermutations, and the list
\* returned is complete.
C3_PermutationOrder ==
    AllPermutations =>
        /\ \A i \in Tasks :
               values[i].set => values[i].modifierInputs = generatePermutations[i]
        /\ phase = "fulfilled" => \A i \in Tasks : values[i].set

\* A later permutation has completed, and filled its slot, before an earlier
\* one.
C3_Witness ==
    /\ AllPermutations
    /\ \E i \in Tasks : \E j \in Tasks : i < j /\ values[j].set /\ ~values[i].set

\* C4: no permutation fails with a circular-reference error while loading
\* its sources: the sources of one permutation are distinct files, so such
\* an error could only come from a URI another permutation is visiting.
C4_NoFalseCycle ==
    \A p \in Tasks :
        task[p].failure # [stage |-> "resolveTokens",
                           kind |-> "CircularReferenceError"]

\* Two permutations are resolving the same URI at the same time.
C4_Witness ==
    \E p \in Tasks : \E q \in Tasks \ {p} : \E f \in Files :
        /\ task[p].pc = "resolveTokens" /\ task[q].pc = "resolveTokens"
        /\ f \in visited[task[p].engine.visited]
        /\ f \in visited[task[q].engine.visited]

\* The outcome of the permutation of context c resolved on its own, from
\* what is on disk.
Solo(c) ==
    LET srcs == Sources(c)
        raw == mergeDocuments([i \in 1..Len(srcs) |->
                                  FileContent(srcs[i], cfg.coreB)])
        prs == cfg.plugins.pre
        pre == IF \E i \in 1..Len(prs) : prs[i] = "bumpA" THEN BumpA(raw) ELSE raw
        r5 == resolveDeepTokenDocument(pre)
        r7 == aliasResolve(flatten(IF r5.ok THEN r5.doc ELSE pre))
        f8 == IF Len(cfg.plugins.filters) > 0
              THEN applyFilters(r7.tokens, cfg.plugins.filters) ELSE r7.tokens
        r9 == applyTransforms(f8, cfg.plugins.transforms)
        failed(stage, kind) ==
            [failure |-> [stage |-> stage, kind |-> kind], tokens |-> NoTokens]
    IN  IF \E i \in 1..Len(srcs) : srcs[i] = cfg.missing
        THEN failed("resolveTokens", "FileOperationError")
        ELSE IF \E i \in 1..Len(prs) : prs[i] = "throws"
        THEN failed("preprocessTokens", "PreprocessorError")
        ELSE IF ~r5.ok /\ cfg.mode = "error"
        THEN failed("resolveReferences", r5.error)
        ELSE IF ~r7.ok THEN failed("resolveAliases", r7.error)
        ELSE IF Len(cfg.plugins.transforms) > 0 /\ ~r9.ok
        THEN failed("applyTransformStage", "TransformError")
        ELSE [failure |-> NoFailure,
              tokens |-> IF Len(cfg.plugins.transforms) > 0 THEN r9.tokens ELSE f8]

Outcome(t) ==
    [failure |-> t.failure, tokens |-> IF t.pc = "done" THEN t.tokens ELSE NoTokens]

\* C5: whatever the interleaving of the permutation tasks, each permutation
\* ends as it would if it were resolved alone from the files on disk.
C5_PermutationIndependence ==
    AllPermutations =>
        \A p \in Tasks :
            Settled(task[p]) => Outcome(task[p]) = Solo(generatePermutations[p])

\* Every permutation has completed, after sharing the read of the set's file.
C5_Witness ==
    /\ AllPermutations
    /\ \A p \in Tasks : task[p].pc = "done" /\ DOMAIN task[p].tokens = Names
    /\ loadCount[CoreFile] = 1
    /\ \E p \in Tasks : \E q \in Tasks : task[p].tokens # task[q].tokens
Logged(t, event) == \E i \in 1..Len(t.log) : t.log[i] = event

\* Reference resolution of task p was tried and failed.
Stage5Failed(p) ==
    /\ Logged(task[p], <<"start", "resolveReferences">>)
    /\ task[p].pc # "resolveReferences"
    /\ ~resolveDeepTokenDocument(heap[DocObj(p)]).ok

Unresolved(v) == v.kind \in {"alias", "ref", "fileref", "propref"}

\* C8: once alias resolution of a permutation has completed, no token value
\* is an alias or holds a $ref, whether reference resolution resolved or was
\* skipped.
C8_NoAliasNoRef ==
    \A p \in Tasks :
        Logged(task[p], <<"end", "resolveAliases">>) =>
            \A n \in DOMAIN task[p].tokens : ~Unresolved(task[p].tokens[n].value)

IsPrefix(s, full) == Len(s) <= Len(full) /\ s = SubSeq(full, 1, Len(s))

Before(t, first, second) ==
    \A j \in 1..Len(t.log) :
        t.log[j] = second => \E i \in 1..(j - 1) : t.log[i] = first

StageEvents ==
    <<<<"start", "resolveTokens">>, <<"end", "resolveTokens">>,
      <<"start", "preprocessTokens">>, <<"end", "preprocessTokens">>,
      <<"start", "resolveReferences">>, <<"end", "resolveReferences">>,
      <<"start", "flattenTokens">>, <<"end", "flattenTokens">>,
      <<"start", "resolveAliases">>, <<"end", "resolveAliases">>,
      <<"start", "applyFilterStage">>, <<"end", "applyFilterStage">>,
      <<"start", "applyTransformStage">>, <<"end", "applyTransformStage">>>>

C12_LoadFailureStartsNothing ==
    rejection.stage = "loadResolver" =>
        /\ phase = "rejected"
        /\ \A p \in Tasks : task[p] = IdleTask
        /\ \A f \in Files : loadCount[f] = 0
        /\ \A c \in CacheIds : inflight[c] = {}

\* resolveAllPermutations has rejected with the failure of Stage 1.
C12_Witness ==
    /\ AllPermutations
    /\ phase = "rejected"
    /\ rejection = [stage |-> "loadResolver", kind |-> "ValidationError"]
(***************************************************************************)
(* Strings.  A string is a sequence of atoms: a word of lower-case         *)
(* letters, whose first letter may stand in upper case, a separator, or    *)
(* the placeholder of a filename template.  A context or modifier name is  *)
(* one word, or words joined by "-".                                       *)
(***************************************************************************)
Word(w) == [k |-> "word", w |-> w, up |-> FALSE]
Sep(c) == [k |-> "sep", w |-> c, up |-> FALSE]
Hole(w) == [k |-> "hole", w |-> w, up |-> FALSE]
Str(w) == <<Word(w)>>
EmptyStr == <<>>
Dash == Sep("-")
\* the value undefined where a string is expected
UndefinedStr == <<[k |-> "undefined", w |-> "", up |-> FALSE]>>

\* the first letter of string s in upper case, s.slice(1) as it is
Capitalize(s) ==
    IF s = EmptyStr THEN s
    ELSE [s EXCEPT ![1] = IF @.k = "word" THEN [@ EXCEPT !.up = TRUE] ELSE @]

toLowerCase(s) == [i \in DOMAIN s |-> [s[i] EXCEPT !.up = FALSE]]

\* parts.join(sep)
RECURSIVE join(_, _)
join(parts, sep) ==
    IF Len(parts) = 0 THEN EmptyStr
    ELSE IF Len(parts) = 1 THEN parts[1]
    ELSE parts[1] \o sep \o join(Tail(parts), sep)

\* s.split(c) for a separator c
RECURSIVE split(_, _)
split(s, c) ==
    IF c \notin Range(s) THEN <<s>>
    ELSE LET i == CHOOSE j \in DOMAIN s :
                      s[j] = c /\ \A h \in 1..(j - 1) : s[h] # c
         IN  <<SubSeq(s, 1, i - 1)>> \o split(SubSeq(s, i + 1, Len(s)), c)

\* obj[key] of a record of strings
Get(obj, key) == IF key \in DOMAIN obj THEN obj[key] ELSE UndefinedStr
\* v ?? d
OrElse(v, d) == IF v = UndefinedStr THEN d ELSE v

\* the elements of sequence s that lie in set S, in the order of s
RECURSIVE Keep(_, _)
Keep(s, S) ==
    IF Len(s) = 0 THEN <<>>
    ELSE IF Head(s) \in S THEN <<Head(s)>> \o Keep(Tail(s), S)
    ELSE Keep(Tail(s), S)

\* sequence s without the later occurrences of an element
RECURSIVE Unique(_)
Unique(s) ==
    IF Len(s) = 0 THEN <<>>
    ELSE LET init == Unique(SubSeq(s, 1, Len(s) - 1))
         IN  IF s[Len(s)] \in Range(init) THEN init ELSE Append(init, s[Len(s)])
(***************************************************************************)
(* What a renderer is handed: the resolver document and the permutations.  *)
(* A resolver document is                                                  *)
(*   [modifiers |-> [present, defs], resolutionOrder],                     *)
(* defs the modifiers in the order of their keys, each                     *)
(*   [name, contexts, default],                                            *)
(* and resolutionOrder a sequence of references [kind, name].  The         *)
(* modifier inputs of a permutation are a function from modifier names to  *)
(* context names.                                                          *)
(***************************************************************************)
\* the longest bundle data that is followed
MaxItems == 3

ModifierDef(name, contexts, default) ==
    [name |-> name, contexts |-> contexts, default |-> default]

SetRef(name) == [kind |-> "sets", name |-> name]
ModifierRef(name) == [kind |-> "modifiers", name |-> name]

\* Object.keys(resolver.modifiers)
ModifierKeys(resolver) ==
    [i \in DOMAIN resolver.modifiers.defs |-> resolver.modifiers.defs[i].name]

\* resolver.modifiers[name]: the position of the definition, 0 for undefined
ModifierAt(resolver, name) ==
    LET hits == {i \in DOMAIN resolver.modifiers.defs :
                    resolver.modifiers.defs[i].name = name}
    IN  IF hits = {} THEN Undefined ELSE CHOOSE i \in hits : TRUE

\* every choice of one context per modifier
AllInputs(defs) ==
    {f \in [{defs[i].name : i \in DOMAIN defs} ->
               UNION {Range(defs[i].contexts) : i \in DOMAIN defs}] :
        \A i \in DOMAIN defs : f[defs[i].name] \in Range(defs[i].contexts)}

\* the sequences of at most n different elements of S
RECURSIVE InjectiveSeqs(_, _)
InjectiveSeqs(S, n) ==
    IF n = 0 THEN {<<>>}
    ELSE LET shorter == InjectiveSeqs(S, n - 1)
             longest == {t \in shorter : Len(t) = n - 1}
         IN  shorter \cup
                 UNION {{Append(s, x) : x \in S \ Range(s)} : s \in longest}

(***************************************************************************)
(* Bundler utilities.                                                      *)
(***************************************************************************)
\* keys and values in lower case
normalizeModifierInputs(modifierInputs) ==
    [k \in {toLowerCase(d) : d \in DOMAIN modifierInputs} |->
        toLowerCase(modifierInputs[CHOOSE d \in DOMAIN modifierInputs :
                                       toLowerCase(d) = k])]

\* the modifiers in which the inputs differ from the base
DifferingModifiers(modifierInputs, baseInputs) ==
    LET a == normalizeModifierInputs(modifierInputs)
        b == normalizeModifierInputs(baseInputs)
    IN  {k \in DOMAIN a : a[k] # Get(b, k)}

countModifierDifferences(modifierInputs, baseInputs) ==
    Cardinality(DifferingModifiers(modifierInputs, baseInputs))

\* "<modifier>-<context>" of the modifier that differs from the base
getExpectedSource(modifierInputs, baseInputs) ==
    LET diff == DifferingModifiers(modifierInputs, baseInputs)
    IN  IF diff = {} THEN EmptyStr
        ELSE LET k == CHOOSE d \in diff : TRUE
             IN  k \o <<Dash>> \o normalizeModifierInputs(modifierInputs)[k]

\* the tokens whose _sourceModifier is the expected source
filterTokensBySource(tokens, expectedSource) ==
    [n \in {m \in DOMAIN tokens :
               /\ tokens[m].sourceModifier # UndefinedStr
               /\ toLowerCase(tokens[m].sourceModifier) = expectedSource} |->
        tokens[n]]

\* "<modifier>-<context>" taken apart at its first "-"
parseModifierSource(source) ==
    LET parts == split(source, Dash)
    IN  [modifier |-> parts[1], context |-> join(Tail(parts), <<Dash>>)]

\* the tokens without _sourceSet and _sourceModifier
stripInternalMetadata(tokens) ==
    [n \in DOMAIN tokens |-> [name |-> tokens[n].name, value |-> tokens[n].value]]

\* the option selector given as a function
SelectorFunction == <<Hole("function")>>

\* what a selector function returns: what it was called with
CallSelector(modifier, context, isBase, allInputs) ==
    [modifier |-> modifier, context |-> context, isBase |-> isBase,
     allInputs |-> allInputs]

\* A selector function is called; a selector string is taken as it is; no
\* selector configured: ":root" for the base, else [data-modifier="context"].
resolveSelector(selector, modifier, context, isBase, allInputs) ==
    IF selector = SelectorFunction
    THEN CallSelector(modifier, context, isBase, allInputs)
    ELSE IF selector # UndefinedStr THEN selector
    ELSE IF isBase THEN <<Sep(":root")>>
    ELSE <<Sep("[data-")>> \o modifier \o <<Sep("=")>> \o context \o <<Sep("]")>>

\* no media query configured
resolveMediaQuery(mediaQuery, modifier, context, isBase, allInputs) == EmptyStr
(***************************************************************************)
(* The CSS bundler.  A token of a permutation is                           *)
(*   [name, value, sourceSet, sourceModifier];                             *)
(* an item of the bundle data is [tokens, modifierInputs, isBase].  What   *)
(* the formatter returns is kept as the tokens and options it was given,   *)
(* and a block as its header, that CSS and the permutation it was made     *)
(* for.                                                                    *)
(***************************************************************************)
Theme == Str("theme")
Brand == Str("brand")
\* the normalized modifier names in the order Array.prototype.sort gives
SortedNames == <<Brand, Theme>>

\* the least element of a set of numbers
First(S) == CHOOSE i \in S : \A j \in S : i <= j

\* the callback of the renderer that writes the rules of one block
formatTokens(tokens, options) == [tokens |-> tokens, options |-> options]

\* the first item taken for the base when none is marked
findBaseItemOrFirst(bundleData) ==
    LET hits == {i \in DOMAIN bundleData : bundleData[i].isBase}
    IN  IF hits # {} THEN First(hits)
        ELSE IF Len(bundleData) > 0 THEN 1 ELSE Undefined

\* bundleData.find((item) => item.isBase): its position, Undefined if none
findBaseItem(bundleData) ==
    LET hits == {i \in DOMAIN bundleData : bundleData[i].isBase}
    IN  IF hits # {} THEN First(hits) ELSE Undefined

\* the modifiers in the order of their declarations only
getOrderedModifierNamesDeclared(resolver) == ModifierKeys(resolver)

\* the modifiers resolutionOrder refers to, in the order of their first
\* reference, then the other modifiers in the order of their declarations
getOrderedModifierNames(resolver) ==
    LET keys == ModifierKeys(resolver)
        refs == resolver.resolutionOrder
        named == [i \in DOMAIN refs |->
                     IF refs[i].kind = "modifiers" THEN refs[i].name
                     ELSE UndefinedStr]
        ordered == Unique(Keep(named, Range(keys)))
    IN  ordered \o Keep(keys, Range(keys) \ Range(ordered))

stableInputsKey(modifierInputs) ==
    LET normalized == normalizeModifierInputs(modifierInputs)
        keys == Keep(SortedNames, DOMAIN normalized)
    IN  join([i \in DOMAIN keys |-> keys[i] \o <<Sep("=")>> \o normalized[keys[i]]],
             <<Sep("|")>>)

\* the first item that is not the base, has the context for the modifier and
\* the base's context for every other modifier: its position, or Undefined
findSingleDiff(bundleData, baseInputs, modifierName, context) ==
    LET normalizedModifier == toLowerCase(modifierName)
        normalizedContext == toLowerCase(context)
        matches(item) ==
            LET inputs == normalizeModifierInputs(item.modifierInputs)
            IN  /\ ~item.isBase
                /\ Get(inputs, normalizedModifier) = normalizedContext
                /\ \A k \in DOMAIN baseInputs \ {normalizedModifier} :
                       Get(inputs, k) = baseInputs[k]
        hits == {i \in DOMAIN bundleData : matches(bundleData[i])}
    IN  IF hits # {} THEN First(hits) ELSE Undefined

\* pushUnique for each of the items in turn
RECURSIVE pushUnique(_, _)
pushUnique(ordered, items) ==
    IF Len(items) = 0 THEN ordered
    ELSE LET key == stableInputsKey(Head(items).modifierInputs)
             included == {stableInputsKey(ordered[i].modifierInputs) :
                             i \in DOMAIN ordered}
         IN  pushUnique(IF key \in included THEN ordered
                        ELSE Append(ordered, Head(items)),
                        Tail(items))

\* what the loops over the modifiers and their contexts hand to pushUnique
RECURSIVE SingleDiffs(_, _, _, _)
SingleDiffs(bundleData, resolver, baseInputs, names) ==
    IF Len(names) = 0 THEN <<>>
    ELSE LET at == ModifierAt(resolver, Head(names))
             rest == SingleDiffs(bundleData, resolver, baseInputs, Tail(names))
         IN  IF at = Undefined THEN rest
             ELSE LET def == resolver.modifiers.defs[at]
                      defaultValue ==
                          OrElse(Get(baseInputs, toLowerCase(def.name)), EmptyStr)
                      contexts ==
                          Keep(def.contexts,
                               {c \in Range(def.contexts) :
                                   defaultValue # toLowerCase(c)})
                      found == [i \in DOMAIN contexts |->
                                   findSingleDiff(bundleData, baseInputs,
                                                  def.name, contexts[i])]
                      hits == Keep(found, DOMAIN bundleData)
                  IN  [i \in DOMAIN hits |-> bundleData[hits[i]]] \o rest

orderBundleData(bundleData, resolver, baseItem) ==
    IF ~resolver.modifiers.present THEN bundleData
    ELSE LET baseInputs == normalizeModifierInputs(baseItem.modifierInputs)
             orderedModifierNames == getOrderedModifierNames(resolver)
         IN  IF Len(orderedModifierNames) = 0 THEN bundleData
             ELSE LET ordered ==
                          pushUnique(<<>>,
                                     <<baseItem>> \o
                                         SingleDiffs(bundleData, resolver,
                                                     baseInputs,
                                                     orderedModifierNames))
                  IN  IF Len(ordered) > 0 THEN ordered ELSE bundleData

Restrict(tokens, names) == [n \in names |-> tokens[n]]

\* every token, in a block already or not
notIncludedOrIncluded(tokens, blocks) == DOMAIN tokens

\* the tokens that no block has yet
notIncluded(tokens, blocks) ==
    DOMAIN tokens \ UNION {DOMAIN blocks[i].tokens : i \in DOMAIN blocks}

\* the blocks of the base permutation, one per entry of resolutionOrder that
\* has tokens left, then the tokens no entry took
RECURSIVE buildDefaultLayerBlocks(_, _, _, _, _)
buildDefaultLayerBlocks(tokens, baseModifierInputs, resolver, order, blocks) ==
    LET left == notIncluded(tokens, blocks)
        addBlock(key, names) ==
            IF names = {} THEN blocks
            ELSE Append(blocks, [key |-> key, tokens |-> Restrict(tokens, names)])
    IN  IF Len(order) = 0 THEN addBlock(<<Sep("Unattributed")>>, left)
        ELSE LET ref == Head(order)
                 baseInputs == normalizeModifierInputs(baseModifierInputs)
                 selectedContext == Get(baseInputs, toLowerCase(ref.name))
                 expectedSource ==
                     toLowerCase(ref.name \o <<Dash>> \o selectedContext)
                 next ==
                     IF ref.kind = "sets"
                     THEN addBlock(<<Sep("Set: ")>> \o ref.name,
                                   {n \in left : tokens[n].sourceSet = ref.name})
                     ELSE IF \/ ModifierAt(resolver, ref.name) = Undefined
                             \/ selectedContext \in {UndefinedStr, EmptyStr}
                     THEN blocks
                     ELSE addBlock(<<Sep("Modifier: ")>> \o ref.name
                                       \o <<Sep("=")>> \o selectedContext
                                       \o <<Sep(" (default)")>>,
                                   {n \in left :
                                       toLowerCase(OrElse(tokens[n].sourceModifier,
                                                          EmptyStr))
                                           = expectedSource})
             IN  buildDefaultLayerBlocks(tokens, baseModifierInputs, resolver,
                                         Tail(order), next)

formatBasePermutation(item, resolver) ==
    LET keys == ModifierKeys(resolver)
        modifier == IF resolver.modifiers.present /\ Len(keys) > 0
                    THEN keys[1] ELSE EmptyStr
        context == OrElse(Get(item.modifierInputs, modifier), EmptyStr)
        options ==
            [selector |-> resolveSelector(input.options.selector, modifier,
                                          context, TRUE, item.modifierInputs),
             mediaQuery |-> resolveMediaQuery(Undefined, modifier, context, TRUE,
                                              item.modifierInputs),
             referenceTokens |-> stripInternalMetadata(item.tokens)]
        defaultBlocks ==
            buildDefaultLayerBlocks(item.tokens, item.modifierInputs, resolver,
                                    resolver.resolutionOrder, <<>>)
    IN  [i \in DOMAIN defaultBlocks |->
            [header |-> defaultBlocks[i].key,
             css |-> formatTokens(stripInternalMetadata(defaultBlocks[i].tokens),
                                  options),
             of |-> item.modifierInputs]]

\* the full token set whenever the filter leaves nothing
tokensToIncludeOrAll(tokens, filtered) ==
    IF DOMAIN filtered = {} THEN tokens ELSE filtered

\* The tokens of an override block: those of the expected source; the full
\* token set when no token has source metadata.
tokensToInclude(tokens, filtered) ==
    LET hasSourceMetadata ==
            \E n \in DOMAIN tokens : tokens[n].sourceModifier # UndefinedStr
    IN  IF DOMAIN filtered = {} /\ ~hasSourceMetadata THEN tokens ELSE filtered

\* the selector of an override block taken as one of the base
overrideSelectorAsBase(item, source) ==
    resolveSelector(input.options.selector, source.modifier, source.context,
                    TRUE, item.modifierInputs)

\* the selector of an override block
overrideSelector(item, source) ==
    resolveSelector(input.options.selector, source.modifier, source.context,
                    FALSE, item.modifierInputs)

\* what formatModifierPermutation goes on with once it has not skipped
ModifierBlock(item, baseItem) ==
    LET expectedSource ==
            getExpectedSource(item.modifierInputs, baseItem.modifierInputs)
        included ==
            tokensToInclude(item.tokens,
                            filterTokensBySource(item.tokens, expectedSource))
        source == parseModifierSource(expectedSource)
        options ==
            [selector |-> overrideSelector(item, source),
             mediaQuery |-> resolveMediaQuery(Undefined, source.modifier,
                                              source.context, FALSE,
                                              item.modifierInputs),
             referenceTokens |-> stripInternalMetadata(item.tokens)]
    IN  IF DOMAIN included = {} THEN <<>>
        ELSE <<[header |-> <<Sep("Modifier: ")>> \o source.modifier
                               \o <<Sep("=")>> \o source.context,
                css |-> formatTokens(stripInternalMetadata(included), options),
                of |-> item.modifierInputs]>>

\* a permutation formatted however many modifiers differ from the base
formatModifierPermutationNoSkip(item, baseItem) == ModifierBlock(item, baseItem)

\* the block of a permutation that is not the base: none, or one
formatModifierPermutation(item, baseItem) ==
    IF countModifierDifferences(item.modifierInputs, baseItem.modifierInputs) > 1
    THEN <<>>
    ELSE ModifierBlock(item, baseItem)
(***************************************************************************)
(* Calls of the bundlers are followed on their own: the pipeline stands    *)
(* still.                                                                  *)
(***************************************************************************)
PipelineUnused ==
    /\ cfg = [call |-> "-"]
    /\ phase = "-"
    /\ task = [p \in Tasks |-> IdleTask]
    /\ values = [p \in Tasks |-> NoValue]
    /\ rejection = NoFailure
    /\ cache = [c \in CacheIds |-> [f \in Files |-> NoObj]]
    /\ inflight = [c \in CacheIds |-> {}]
    /\ visited = [e \in CacheIds |-> {}]
    /\ heap = [o \in ObjIds |-> EmptyDoc]
    /\ loadCount = [f \in Files |-> 0]
    /\ warnings = {}

\* a name as the resolver document spells it
Declared(s, cased) == IF cased THEN Capitalize(s) ELSE s

\* Two modifiers of two contexts each; base gives the defaults.
CssModifierDefs(cased) ==
    <<[name |-> Declared(Theme, cased),
       contexts |-> <<Declared(Str("light"), cased), Declared(Str("dark"), cased)>>],
      [name |-> Declared(Brand, cased),
       contexts |-> <<Declared(Str("acme"), cased), Declared(Str("zen"), cased)>>]>>

WithDefaults(defs, base) ==
    [i \in DOMAIN defs |->
        ModifierDef(defs[i].name, defs[i].contexts, base[defs[i].name])]

CssResolutionOrders(cased) ==
    {<<SetRef(Str("core"))>>,
     <<SetRef(Str("core")), ModifierRef(Declared(Theme, cased)),
       ModifierRef(Declared(Brand, cased))>>,
     <<ModifierRef(Declared(Brand, cased)), SetRef(Str("core"))>>}

\* The tokens of a permutation: one of the set core, and one of each
\* modifier whose contexts have sources, attributed to the context chosen.
PermutationTokens(modifierInputs, contributing) ==
    LET nameOf(m) == IF toLowerCase(m) = Theme THEN "primary" ELSE "accent"
        names == {"spacing"} \cup {nameOf(m) : m \in contributing}
        token(n) ==
            IF n = "spacing"
            THEN [name |-> n, value |-> Str("8px"),
                  sourceSet |-> Str("core"), sourceModifier |-> UndefinedStr]
            ELSE LET m == CHOOSE d \in contributing : nameOf(d) = n
                 IN  [name |-> n, value |-> modifierInputs[m],
                      sourceSet |-> UndefinedStr,
                      sourceModifier |-> m \o <<Dash>> \o modifierInputs[m]]
    IN  [n \in names |-> token(n)]

\* The bundle data a renderer builds from the permutations it is handed and
\* the base permutation of the build.
BundleData(permutations, base, contributing) ==
    [i \in DOMAIN permutations |->
        [tokens |-> PermutationTokens(permutations[i], contributing),
         modifierInputs |-> permutations[i],
         isBase |-> permutations[i] = base]]

CssCalled ==
    [pc |-> "called", baseItem |-> Undefined, ordered |-> <<>>, i |-> 0,
     cssBlocks |-> <<>>, calls |-> 0, error |-> "-"]

CssInit ==
    /\ PipelineUnused
    /\ \E cased \in BOOLEAN, present \in BOOLEAN, formatter \in BOOLEAN,
          selector \in {UndefinedStr, SelectorFunction} :
         LET defs == CssModifierDefs(cased)
             names == {defs[i].name : i \in DOMAIN defs}
         IN  \E base \in AllInputs(defs), contributing \in SUBSET names,
                permutations \in InjectiveSeqs(AllInputs(defs), MaxItems),
                order \in CssResolutionOrders(cased) :
                 input =
                     [call |-> "bundleAsCss",
                      bundleData |-> BundleData(permutations, base, contributing),
                      resolver |->
                          [modifiers |->
                               [present |-> present,
                                defs |-> IF present THEN WithDefaults(defs, base)
                                         ELSE <<>>],
                           resolutionOrder |-> order],
                      options |-> [selector |-> selector],
                      formatTokens |-> formatter]
    /\ run = CssCalled

\* bundleAsCss up to its loop: the base item is looked for, then the
\* formatter, then the items are ordered.
BundleAsCss ==
    /\ run.pc = "called"
    /\ LET baseItem == findBaseItem(input.bundleData)
       IN  run' =
               IF baseItem = Undefined
               THEN [run EXCEPT !.pc = "thrown", !.error = "BasePermutationError"]
               ELSE IF ~input.formatTokens
               THEN [run EXCEPT !.pc = "thrown", !.error = "ConfigurationError"]
               ELSE [run EXCEPT
                        !.pc = "loop", !.baseItem = baseItem, !.i = 1,
                        !.ordered = orderBundleData(input.bundleData,
                                                    input.resolver,
                                                    input.bundleData[baseItem])]
    /\ UNCHANGED <<pipelineVars, input>>

\* One turn of the loop: the blocks of the base item, or the block of an
\* item that is not the base, if it has one.
FormatItem ==
    /\ run.pc = "loop"
    /\ run.i <= Len(run.ordered)
    /\ LET item == run.ordered[run.i]
           blocks == IF item.isBase
                     THEN formatBasePermutation(item, input.resolver)
                     ELSE formatModifierPermutation(item,
                                                    input.bundleData[run.baseItem])
       IN  run' = [run EXCEPT !.cssBlocks = @ \o blocks,
                              !.calls = @ + Len(blocks),
                              !.i = @ + 1]
    /\ UNCHANGED <<pipelineVars, input>>

\* The loop is over: the blocks are joined and returned.
BundleAsCssReturns ==
    /\ run.pc = "loop"
    /\ run.i > Len(run.ordered)
    /\ run' = [run EXCEPT !.pc = "returned"]
    /\ UNCHANGED <<pipelineVars, input>>

CssNext ==
    \/ BundleAsCss
    \/ FormatItem
    \/ BundleAsCssReturns

CssSpec == CssInit /\ [][CssNext]_vars

\* the permutation the bundler took for the base
CssBase == input.bundleData[run.baseItem].modifierInputs

\* the item of the bundle data with the given modifier inputs
ItemOf(modifierInputs) ==
    input.bundleData[CHOOSE i \in DOMAIN input.bundleData :
                         input.bundleData[i].modifierInputs = modifierInputs]

\* C13 as stated: an override block made for a permutation that deviates
\* from the base in exactly one modifier holds only tokens of that
\* permutation whose _sourceModifier is the deviating "modifier-context".
C13_OverrideOnlyFromItsModifier ==
    \A i \in DOMAIN run.cssBlocks :
        LET block == run.cssBlocks[i]
            diff == DifferingModifiers(block.of, CssBase)
        IN  Cardinality(diff) = 1 =>
                LET k == CHOOSE d \in diff : TRUE
                    deviating ==
                        k \o <<Dash>> \o normalizeModifierInputs(block.of)[k]
                IN  \A n \in DOMAIN block.css.tokens :
                        toLowerCase(ItemOf(block.of).tokens[n].sourceModifier)
                            = deviating

\* C13 as amended: the override block of a permutation that deviates from
\* the base in exactly one modifier holds exactly the tokens of that
\* permutation whose _sourceModifier is the deviating "modifier-context",
\* when some token of the permutation has a _sourceModifier; when none has,
\* it holds every token of the permutation.
C13_OverrideFromItsModifierOrAll ==
    \A i \in DOMAIN run.cssBlocks :
        LET block == run.cssBlocks[i]
            tokens == ItemOf(block.of).tokens
            diff == DifferingModifiers(block.of, CssBase)
        IN  Cardinality(diff) = 1 =>
                LET k == CHOOSE d \in diff : TRUE
                    deviating ==
                        k \o <<Dash>> \o normalizeModifierInputs(block.of)[k]
                    sourced == {n \in DOMAIN tokens :
                                   toLowerCase(tokens[n].sourceModifier) = deviating}
                IN  DOMAIN block.css.tokens =
                        IF \E n \in DOMAIN tokens :
                               tokens[n].sourceModifier # UndefinedStr
                        THEN sourced ELSE DOMAIN tokens

\* The bundle has been returned with an override block that holds one token
\* of a permutation of three.
C13_Witness ==
    /\ run.pc = "returned"
    /\ \E i \in DOMAIN run.cssBlocks :
           /\ Cardinality(DifferingModifiers(run.cssBlocks[i].of, CssBase)) = 1
           /\ DOMAIN run.cssBlocks[i].css.tokens = {"primary"}
           /\ DOMAIN ItemOf(run.cssBlocks[i].of).tokens
                  = {"spacing", "primary", "accent"}

\* C14: no block of the bundle was made for a permutation that differs from
\* the base in two or more modifiers.
C14_NoBlockForMultiModifier ==
    \A i \in DOMAIN run.cssBlocks :
        Cardinality(DifferingModifiers(run.cssBlocks[i].of, CssBase)) <= 1

\* The bundle has been returned with an override block, for bundle data
\* that was not reordered and holds a permutation differing from the base in
\* both modifiers.
C14_Witness ==
    /\ run.pc = "returned"
    /\ ~input.resolver.modifiers.present
    /\ \E i \in DOMAIN input.bundleData :
           Cardinality(DifferingModifiers(input.bundleData[i].modifierInputs,
                                          CssBase)) = 2
    /\ \E i \in DOMAIN run.cssBlocks :
           Cardinality(DifferingModifiers(run.cssBlocks[i].of, CssBase)) = 1

\* C15: when no item of the bundle data is marked as base, bundleAsCss
\* throws BasePermutationError, whether a formatter was given or not, and it
\* has called the formatter for nothing and built no block.
C15_NoBaseRaises ==
    (/\ run.pc # "called"
     /\ \A i \in DOMAIN input.bundleData : ~input.bundleData[i].isBase)
        => /\ run.pc = "thrown"
           /\ run.error = "BasePermutationError"
           /\ run.calls = 0
           /\ run.cssBlocks = <<>>

\* bundleAsCss has thrown for bundle data of several permutations, none the
\* base, and a formatter.
C15_Witness ==
    /\ run.pc = "thrown"
    /\ run.error = "BasePermutationError"
    /\ Len(input.bundleData) > 1
    /\ input.formatTokens
\* the one modifier in which permutation p deviates from the base, as the
\* resolver document spells it
Deviating(p) ==
    CHOOSE d \in DOMAIN p : toLowerCase(d) \in DifferingModifiers(p, CssBase)

\* C26: a selector function is called with (modifier, context, isBase,
\* allInputs), isBase being true for the blocks of the base permutation and
\* for no other; for a permutation that deviates from the base in one
\* modifier, modifier and context are that modifier and its context (in
\* lower case) and allInputs the permutation's inputs.  With no selector
\* configured the base has the selector :root and such a deviation
\* [data-modifier="context"].
C26_SelectorArguments ==
    \A i \in DOMAIN run.cssBlocks :
        LET block == run.cssBlocks[i]
            selector == block.css.options.selector
            isBase == block.of = CssBase
            single == Cardinality(DifferingModifiers(block.of, CssBase)) = 1
            modifier == toLowerCase(Deviating(block.of))
            context == toLowerCase(block.of[Deviating(block.of)])
        IN  IF input.options.selector = SelectorFunction
            THEN /\ selector.isBase = isBase
                 /\ selector.allInputs = block.of
                 /\ single => /\ toLowerCase(selector.modifier) = modifier
                              /\ toLowerCase(selector.context) = context
            ELSE /\ isBase => selector = <<Sep(":root")>>
                 /\ single =>
                        toLowerCase(selector) =
                            <<Sep("[data-")>> \o modifier \o <<Sep("=")>>
                                \o context \o <<Sep("]")>>

\* The bundle has been returned with blocks of the base and an override
\* block whose selectors a selector function gave, the base not being the
\* first item of the bundle data.
C26_Witness ==
    /\ run.pc = "returned"
    /\ input.call = "bundleAsCss"
    /\ input.options.selector = SelectorFunction
    /\ run.baseItem > 1
    /\ \E i, j \in DOMAIN run.cssBlocks :
           /\ run.cssBlocks[i].css.options.selector.isBase
           /\ ~run.cssBlocks[j].css.options.selector.isBase
           /\ run.cssBlocks[j].css.options.selector.modifier = Brand
\* C27: in the bundle every block of the base permutation comes before
\* every override block, wherever the base item stands in the bundle data
\* and whether or not the resolver declares modifiers.
C27_BaseBlocksFirst ==
    \A i, j \in DOMAIN run.cssBlocks :
        (run.cssBlocks[i].of = CssBase /\ run.cssBlocks[j].of # CssBase) => i < j

\* When the resolver declares modifiers, the blocks of the base come first.
C27_BaseBlocksFirstWithModifiers ==
    (input.resolver.modifiers.present /\ Len(input.resolver.modifiers.defs) > 0)
        => C27_BaseBlocksFirst
(***************************************************************************)
(* Keyed bundling: bundleAsJsModule and bundleAsJson write one entry per   *)
(* permutation under a key made of the permutation's dimension values.     *)
(***************************************************************************)
\* dimensions and defaults of the resolver document, in lower case, the
\* dimensions in the order of the document's modifiers
buildMetadata(resolver) ==
    LET defs == resolver.modifiers.defs
    IN  [dimensions |-> [i \in DOMAIN defs |-> toLowerCase(defs[i].name)],
         defaults |->
             [k \in {toLowerCase(defs[i].name) : i \in DOMAIN defs} |->
                 toLowerCase(defs[CHOOSE i \in DOMAIN defs :
                                      toLowerCase(defs[i].name) = k].default)]]

\* "<dimension>=<value>" of each dimension, joined by "|"
buildStablePermutationKey(normalizedInputs, dimensions) ==
    join([i \in DOMAIN dimensions |->
             dimensions[i] \o <<Sep("=")>>
                 \o OrElse(Get(normalizedInputs, dimensions[i]), EmptyStr)],
         <<Sep("|")>>)

\* the parts of a key with every part but the first capitalised, the "-"
\* between them dropped
toCamelKeyKeepDash(key) ==
    LET parts == split(key, Dash)
    IN  join([i \in DOMAIN parts |->
                 IF i = 1 THEN parts[i] ELSE Capitalize(parts[i])],
             <<Dash>>)

toCamelKey(key) ==
    IF key = EmptyStr THEN EmptyStr
    ELSE LET parts == SelectSeq(split(key, Dash), LAMBDA part : part # EmptyStr)
         IN  join([i \in DOMAIN parts |->
                      IF i = 1 THEN parts[i] ELSE Capitalize(parts[i])],
                  EmptyStr)

buildStableDashKey(modifierInputs, dimensions, defaults) ==
    LET inputs == normalizeModifierInputs(modifierInputs)
    IN  join([i \in DOMAIN dimensions |->
                 OrElse(OrElse(Get(inputs, dimensions[i]),
                               Get(defaults, dimensions[i])),
                        EmptyStr)],
             <<Dash>>)

\* The value of an object literal or of a sequence of assignments
\* obj[key] = value: of the entries with one key the last is kept.
ObjectOf(entries) ==
    [k \in {entries[i].key : i \in DOMAIN entries} |->
        entries[CHOOSE i \in DOMAIN entries :
                    /\ entries[i].key = k
                    /\ \A j \in DOMAIN entries :
                           entries[j].key = k => j <= i]]

\* Two modifiers of two contexts each.  The contexts are single words that
\* the modifiers share, or names of words joined by "-".
KeyedModifierDefs(cased, hyphens) ==
    IF hyphens
    THEN <<ModifierDef(Declared(Brand, cased),
                       <<Declared(Str("dark"), cased),
                         Declared(Str("dark") \o <<Dash>> \o Str("a"), cased)>>,
                       Declared(Str("dark"), cased)),
           ModifierDef(Declared(Theme, cased),
                       <<Declared(Str("dark"), cased),
                         Declared(Str("a") \o <<Dash>> \o Str("dark"), cased)>>,
                       Declared(Str("dark"), cased))>>
    ELSE <<ModifierDef(Declared(Brand, cased),
                       <<Declared(Str("dark"), cased),
                         Declared(Str("light"), cased)>>,
                       Declared(Str("light"), cased)),
           ModifierDef(Declared(Theme, cased),
                       <<Declared(Str("dark"), cased),
                         Declared(Str("light"), cased)>>,
                       Declared(Str("light"), cased))>>

KeyedCalled ==
    [pc |-> "called", metadata |-> Undefined, i |-> 0, entries |-> <<>>,
     tokens |-> <<>>, error |-> "-", lookup |-> Undefined]

KeyedInit ==
    /\ PipelineUnused
    /\ \E call \in {"bundleAsJsModule", "bundleAsJson"},
          cased \in BOOLEAN, hyphens \in BOOLEAN, formatter \in BOOLEAN :
         LET defs == KeyedModifierDefs(cased, hyphens)
             base == [k \in {defs[i].name : i \in DOMAIN defs} |->
                         defs[CHOOSE i \in DOMAIN defs : defs[i].name = k].default]
         IN  \E permutations \in InjectiveSeqs(AllInputs(defs), MaxItems) :
                 input =
                     [call |-> call,
                      bundleData |->
                          BundleData(permutations, base, DOMAIN base),
                      resolver |->
                          [modifiers |-> [present |-> TRUE, defs |-> defs],
                           resolutionOrder |-> <<SetRef(Str("core"))>>],
                      formatTokens |-> formatter]
    /\ run = KeyedCalled

\* bundleAsJsModule up to its loop
BundleAsJsModule ==
    /\ input.call = "bundleAsJsModule"
    /\ run.pc = "called"
    /\ run' = [run EXCEPT !.pc = "loop", !.i = 1,
                          !.metadata = buildMetadata(input.resolver)]
    /\ UNCHANGED <<pipelineVars, input>>

\* One turn of the loop of bundleAsJsModule: the entry of a permutation is
\* pushed, its dash key in the comment and its camel key as the key; without
\* a formatter the turn throws.
PushJsBlock ==
    /\ input.call = "bundleAsJsModule"
    /\ run.pc = "loop"
    /\ run.i <= Len(input.bundleData)
    /\ LET item == input.bundleData[run.i]
           cleanTokens == stripInternalMetadata(item.tokens)
           key == buildStableDashKey(item.modifierInputs,
                                     run.metadata.dimensions,
                                     run.metadata.defaults)
           camelKey == toCamelKey(key)
       IN  run' =
               IF ~input.formatTokens
               THEN [run EXCEPT !.pc = "thrown", !.error = "ConfigurationError"]
               ELSE [run EXCEPT
                        !.entries = Append(@, [comment |-> key,
                                               key |-> camelKey,
                                               of |-> item.modifierInputs,
                                               value |-> cleanTokens]),
                        !.i = @ + 1]
    /\ UNCHANGED <<pipelineVars, input>>

\* The module text is returned; its tokens object is the object literal of
\* the entries.
BundleAsJsModuleReturns ==
    /\ input.call = "bundleAsJsModule"
    /\ run.pc = "loop"
    /\ run.i > Len(input.bundleData)
    /\ run' = [run EXCEPT !.pc = "returned", !.tokens = ObjectOf(run.entries)]
    /\ UNCHANGED <<pipelineVars, input>>

\* bundleAsJson up to its loop: without a formatter it throws at once.
BundleAsJson ==
    /\ input.call = "bundleAsJson"
    /\ run.pc = "called"
    /\ run' =
           IF ~input.formatTokens
           THEN [run EXCEPT !.pc = "thrown", !.error = "ConfigurationError"]
           ELSE [run EXCEPT !.pc = "loop", !.i = 1,
                            !.metadata = buildMetadata(input.resolver)]
    /\ UNCHANGED <<pipelineVars, input>>

\* One turn of the loop of bundleAsJson: tokens[key] is assigned.
AssignJsonEntry ==
    /\ input.call = "bundleAsJson"
    /\ run.pc = "loop"
    /\ run.i <= Len(input.bundleData)
    /\ LET item == input.bundleData[run.i]
           cleanTokens == stripInternalMetadata(item.tokens)
           normalizedInputs == normalizeModifierInputs(item.modifierInputs)
           key == buildStablePermutationKey(normalizedInputs,
                                            run.metadata.dimensions)
           entries == Append(run.entries, [comment |-> EmptyStr,
                                           key |-> key,
                                           of |-> item.modifierInputs,
                                           value |-> cleanTokens])
       IN  run' = [run EXCEPT !.entries = entries,
                              !.tokens = ObjectOf(entries),
                              !.i = @ + 1]
    /\ UNCHANGED <<pipelineVars, input>>

BundleAsJsonReturns ==
    /\ input.call = "bundleAsJson"
    /\ run.pc = "loop"
    /\ run.i > Len(input.bundleData)
    /\ run' = [run EXCEPT !.pc = "returned"]
    /\ UNCHANGED <<pipelineVars, input>>

\* modifiers[dim] || defaults[dim]
OrDefault(v, d) == IF v \in {UndefinedStr, EmptyStr} THEN d ELSE v

\* The key the generated helper getTokens computes: the values of the
\* dimensions, a missing one taken from the defaults, joined by "-", split
\* at "-" again and put together with every part but the first capitalised.
helperKey(modifiers, metadata) ==
    LET key == join([i \in DOMAIN metadata.dimensions |->
                        OrDefault(Get(modifiers, metadata.dimensions[i]),
                                  Get(metadata.defaults, metadata.dimensions[i]))],
                    <<Dash>>)
        parts == SelectSeq(split(key, Dash), LAMBDA part : part # EmptyStr)
    IN  join([i \in DOMAIN parts |->
                 IF i = 1 THEN parts[i] ELSE Capitalize(parts[i])],
             EmptyStr)

\* The modifier inputs that name permutation p: its inputs as _meta spells
\* them, with or without those that are the defaults.
NamingInputs(p, metadata) ==
    LET inputs == normalizeModifierInputs(p)
    IN  {Restrict(inputs, D) :
            D \in {E \in SUBSET DOMAIN inputs :
                      \A d \in DOMAIN inputs \ E :
                          inputs[d] = metadata.defaults[d]}}

\* The helper getTokens of a module that was bundled with generateHelper is
\* called with modifier inputs that name one of the permutations bundled.
GetTokens ==
    /\ input.call = "bundleAsJsModule"
    /\ run.pc = "returned"
    /\ \E i \in DOMAIN input.bundleData :
         \E modifiers \in NamingInputs(input.bundleData[i].modifierInputs,
                                       run.metadata) :
             LET camelKey == helperKey(modifiers, run.metadata)
             IN  run' = [run EXCEPT
                            !.pc = "looked up",
                            !.lookup =
                                [modifiers |-> modifiers,
                                 named |-> i,
                                 key |-> camelKey,
                                 found |-> camelKey \in DOMAIN run.tokens,
                                 value |-> IF camelKey \in DOMAIN run.tokens
                                           THEN run.tokens[camelKey].value
                                           ELSE Undefined]]
    /\ UNCHANGED <<pipelineVars, input>>

KeyedNext ==
    \/ BundleAsJsModule
    \/ PushJsBlock
    \/ BundleAsJsModuleReturns
    \/ GetTokens
    \/ BundleAsJson
    \/ AssignJsonEntry
    \/ BundleAsJsonReturns

KeyedSpec == KeyedInit /\ [][KeyedNext]_vars

\* the dimension values of a permutation in the order of the document's
\* modifiers, in lower case
DimensionValues(modifierInputs) ==
    LET defs == input.resolver.modifiers.defs
    IN  [i \in DOMAIN defs |-> toLowerCase(modifierInputs[defs[i].name])]

\* C16 as stated: every entry of a keyed bundle is stored under the
\* dimension values of its permutation, in dimension order, joined by "-".
C16_KeyIsDashJoined ==
    \A i \in DOMAIN run.entries :
        run.entries[i].key = join(DimensionValues(run.entries[i].of), <<Dash>>)

\* C16 as amended: the entry of the i-th permutation is written under a key
\* made of the permutation's dimension values in dimension order, in lower
\* case.  In a JS bundle the key is the words of the values with no
\* separator, every word but the first capitalised, and the values joined by
\* "-" stand in the comment of the entry; in a JSON bundle the key is the
\* pairs "<dimension>=<value>" joined by "|".
C16_KeyIsCamelOrPairs ==
    \A i \in DOMAIN run.entries :
        LET entry == run.entries[i]
            dimValues == DimensionValues(entry.of)
            dashed == join(dimValues, <<Dash>>)
            words == SelectSeq(dashed, LAMBDA a : a # Dash)
            defs == input.resolver.modifiers.defs
        IN  /\ entry.of = input.bundleData[i].modifierInputs
            /\ IF input.call = "bundleAsJsModule"
               THEN /\ entry.comment = dashed
                    /\ entry.key =
                           [j \in DOMAIN words |->
                               [words[j] EXCEPT !.up = (j > 1)]]
               ELSE entry.key =
                        join([j \in DOMAIN defs |->
                                 toLowerCase(defs[j].name)
                                     \o <<Sep("=")>> \o dimValues[j]],
                             <<Sep("|")>>)

\* A JS bundle has been returned with the entry of a permutation whose
\* dimension values are a word and a hyphenated name, spelt with capitals in
\* the document.
C16_Witness ==
    /\ run.pc = "returned"
    /\ input.call = "bundleAsJsModule"
    /\ \E i \in DOMAIN run.entries :
           /\ run.entries[i].of # normalizeModifierInputs(run.entries[i].of)
           /\ Len(run.entries[i].comment) = 5
           /\ Len(run.entries[i].key) = 3

\* C17: a keyed bundle that has been returned for n permutations with
\* pairwise different modifier inputs has n entries in its tokens object.
C17_EveryPermutationHasItsEntry ==
    run.pc = "returned" =>
        Cardinality(DOMAIN run.tokens) = Len(input.bundleData)

\* C30: for modifier inputs that name a bundled permutation, defaults left
\* out or not, the helper getTokens computes the key under which the bundler
\* stored that permutation, and returns the tokens of that permutation.
C30_HelperFindsPermutation ==
    run.pc = "looked up" =>
        /\ run.lookup.key = run.entries[run.lookup.named].key
        /\ run.lookup.found
        /\ run.lookup.value =
               stripInternalMetadata(input.bundleData[run.lookup.named].tokens)

\* The helper computes the key under which the bundler stored the
\* permutation named.
C30_HelperComputesStoredKey ==
    run.pc = "looked up" =>
        /\ run.lookup.key = run.entries[run.lookup.named].key
        /\ run.lookup.found
(***************************************************************************)
(* Standalone output of the iOS renderer: one file per permutation, named  *)
(* by the filename template of the output.                                 *)
(***************************************************************************)
\* the template with every placeholder {modifier} replaced by the context
\* of that modifier in the inputs; a placeholder of no modifier stays
resolveFileName(file, modifierInputs) ==
    LET inputs == normalizeModifierInputs(modifierInputs)
        piece(a) ==
            IF a.k = "hole" /\ Str(a.w) \in DOMAIN inputs
            THEN inputs[Str(a.w)] ELSE <<a>>
    IN  join([i \in DOMAIN file |-> piece(file[i])], EmptyStr)

\* the key of a permutation's output when no file is configured: the name
\* of the output, the inputs of the permutation in dimension order, and the
\* extension
buildInMemoryOutputKey(outputName, extension, modifierInputs, resolver) ==
    outputName \o <<Dash>>
        \o buildStablePermutationKey(normalizeModifierInputs(modifierInputs),
                                     buildMetadata(resolver).dimensions)
        \o <<Sep(".")>> \o extension

\* The filename templates followed: none, one without a placeholder, one
\* with the placeholder of one modifier, one with those of both.
StandaloneFiles ==
    {UndefinedStr,
     <<Sep("Tokens.swift")>>,
     <<Sep("Tokens-"), Hole("theme"), Sep(".swift")>>,
     <<Sep("Tokens-"), Hole("theme"), Dash, Hole("brand"), Sep(".swift")>>}

StandaloneCalled ==
    [pc |-> "called", i |-> 0, entries |-> <<>>, files |-> <<>>, error |-> "-"]

StandaloneInit ==
    /\ PipelineUnused
    /\ \E cased \in BOOLEAN, file \in StandaloneFiles, buildPath \in BOOLEAN :
         LET defs == CssModifierDefs(cased)
             base == [k \in {defs[i].name : i \in DOMAIN defs} |->
                         defs[CHOOSE i \in DOMAIN defs :
                                  defs[i].name = k].contexts[1]]
         IN  \E permutations \in InjectiveSeqs(AllInputs(defs), MaxItems) :
                 input =
                     [call |-> "formatStandalone",
                      permutations |->
                          BundleData(permutations, base, DOMAIN base),
                      resolver |->
                          [modifiers |->
                               [present |-> TRUE,
                                defs |-> WithDefaults(defs, base)],
                           resolutionOrder |-> <<SetRef(Str("core"))>>],
                      output |-> [name |-> Str("ios"), file |-> file],
                      buildPath |-> buildPath]
    /\ run = StandaloneCalled

\* formatStandalone up to its loop: an output that is written to disk needs
\* a file.
FormatStandalone ==
    /\ input.call = "formatStandalone"
    /\ run.pc = "called"
    /\ run' =
           IF input.output.file = UndefinedStr /\ input.buildPath
           THEN [run EXCEPT !.pc = "thrown", !.error = "ConfigurationError"]
           ELSE [run EXCEPT !.pc = "loop", !.i = 1]
    /\ UNCHANGED <<pipelineVars, input>>

\* One turn of the loop: files[fileName] = content.
WriteStandaloneFile ==
    /\ input.call = "formatStandalone"
    /\ run.pc = "loop"
    /\ run.i <= Len(input.permutations)
    /\ LET item == input.permutations[run.i]
           processedTokens == stripInternalMetadata(item.tokens)
           fileName ==
               IF input.output.file # UndefinedStr
               THEN resolveFileName(input.output.file, item.modifierInputs)
               ELSE buildInMemoryOutputKey(input.output.name, Str("swift"),
                                           item.modifierInputs, input.resolver)
           entries == Append(run.entries, [key |-> fileName,
                                           of |-> item.modifierInputs,
                                           value |-> processedTokens])
       IN  run' = [run EXCEPT !.entries = entries,
                              !.files = ObjectOf(entries),
                              !.i = @ + 1]
    /\ UNCHANGED <<pipelineVars, input>>

FormatStandaloneReturns ==
    /\ input.call = "formatStandalone"
    /\ run.pc = "loop"
    /\ run.i > Len(input.permutations)
    /\ run' = [run EXCEPT !.pc = "returned"]
    /\ UNCHANGED <<pipelineVars, input>>

StandaloneNext ==
    \/ FormatStandalone
    \/ WriteStandaloneFile
    \/ FormatStandaloneReturns

StandaloneSpec == StandaloneInit /\ [][StandaloneNext]_vars

\* C18: no file of a standalone output replaces the file of another
\* permutation: when the template gives two permutations one path, the
\* second is not written (a configuration error is raised instead).
C18_NoFileReplaced ==
    \A i, j \in DOMAIN run.entries :
        i # j => run.entries[i].key # run.entries[j].key
(***************************************************************************)
(* AliasResolver.resolve on its own: the tokens of a flat table are        *)
(* resolved one after the other, and the first error is thrown.            *)
(***************************************************************************)
\* the longest chain of aliases that is followed
MaxChain == 12

\* the depth bounds a resolver is made with
MaxDepths == {1, DEFAULT_MAX_ALIAS_DEPTH}

\* A table of tokens 1..n, each the alias of the next; the last has a
\* literal value, or is the alias of no token (0), or of a token of the table.
ChainTable(n, end) ==
    [k \in 1..n |->
        [name |-> k,
         value |-> IF k < n THEN Alias(k + 1) ELSE end,
         originalValue |-> IF k < n THEN Alias(k + 1) ELSE end]]

AliasCalled ==
    [pc |-> "called", i |-> 0, resolved |-> <<>>, error |-> "-",
     trail |-> <<>>]

AliasInit ==
    /\ PipelineUnused
    /\ \E n \in 1..MaxChain, maxDepth \in MaxDepths, ascending \in BOOLEAN :
         \E end \in {Lit(1)} \cup {Alias(j) : j \in 0..n} :
             input = [call |-> "AliasResolver.resolve",
                      flatTokens |-> ChainTable(n, end),
                      order |-> [k \in 1..n |->
                                    IF ascending THEN k ELSE n + 1 - k],
                      maxDepth |-> maxDepth]
    /\ run = AliasCalled

AliasResolve ==
    /\ input.call = "AliasResolver.resolve"
    /\ run.pc = "called"
    /\ run' = [run EXCEPT !.pc = "loop", !.i = 1]
    /\ UNCHANGED <<pipelineVars, input>>

\* One token is resolved: its value is kept, or its error thrown.
ResolveToken ==
    /\ input.call = "AliasResolver.resolve"
    /\ run.pc = "loop"
    /\ run.i <= Len(input.order)
    /\ LET name == input.order[run.i]
           r == resolveAlias(input.flatTokens, name, input.maxDepth)
       IN  run' =
               IF IsErr(r.result)
               THEN [run EXCEPT !.pc = "thrown", !.error = r.result.to,
                                !.trail = r.trail]
               ELSE [run EXCEPT !.resolved = Append(@, [name |-> name,
                                                        value |-> r.result]),
                                !.i = @ + 1]
    /\ UNCHANGED <<pipelineVars, input>>

AliasResolveReturns ==
    /\ input.call = "AliasResolver.resolve"
    /\ run.pc = "loop"
    /\ run.i > Len(input.order)
    /\ run' = [run EXCEPT !.pc = "returned"]
    /\ UNCHANGED <<pipelineVars, input>>

AliasNext ==
    \/ AliasResolve
    \/ ResolveToken
    \/ AliasResolveReturns

\* resolve is one synchronous call: it runs on to its return or its throw.
AliasSpec == AliasInit /\ [][AliasNext]_vars /\ WF_vars(AliasNext)

\* the tokens that the aliases of the tokens of S name
AliasTargets(S) ==
    {input.flatTokens[x].value.to :
        x \in {y \in S : /\ IsAlias(input.flatTokens[y].value)
                         /\ input.flatTokens[y].value.to
                                \in DOMAIN input.flatTokens}}

\* S with the tokens reached from it in up to k hops
RECURSIVE Closure(_, _)
Closure(S, k) ==
    IF k = 0 THEN S
    ELSE Closure(UNION {T \cup AliasTargets(T) : T \in {S}}, k - 1)

\* the tokens reached from token n in one hop or more
ReachedFrom(n) == Closure(AliasTargets({n}), MaxChain)

\* the chain of token n returns to a token already on it
ReturnsToItself(n) ==
    \E m \in {n} \cup ReachedFrom(n) : m \in ReachedFrom(m)

\* a trail from token n on, each name the alias of the one before, that
\* ends at the first name met twice
FullTrail(trail, n) ==
    /\ Len(trail) > 1
    /\ trail[1] = n
    /\ \A k \in 1..(Len(trail) - 1) :
           /\ IsAlias(input.flatTokens[trail[k]].value)
           /\ input.flatTokens[trail[k]].value.to = trail[k + 1]
    /\ \A k, l \in 1..(Len(trail) - 1) : k # l => trail[k] # trail[l]
    /\ \E k \in 1..(Len(trail) - 1) : trail[k] = trail[Len(trail)]

\* resolve has been through the token at position k of its order
Reached(k) ==
    \/ run.pc \in {"loop", "returned"} /\ k < run.i
    \/ run.pc = "thrown" /\ k <= run.i

MaxModifiers == 3
\* the most contexts of a modifier
MaxContextsPer == 3

\* the inputs with the context of one more modifier
WithInput(inputs, name, context) ==
    [k \in DOMAIN inputs \cup {name} |->
        IF k = name THEN context ELSE inputs[k]]

\* s[1] \o s[2] \o ... for a sequence of sequences
RECURSIVE Concat(_)
Concat(s) == IF Len(s) = 0 THEN <<>> ELSE Head(s) \o Concat(Tail(s))

\* The permutations with the last modifier varying slowest.
RECURSIVE generatePermutationsLastSlowest(_)
generatePermutationsLastSlowest(defs) ==
    IF Len(defs) = 0 THEN << <<>> >>
    ELSE LET last == defs[Len(defs)]
             rest == generatePermutationsLastSlowest(SubSeq(defs, 1, Len(defs) - 1))
         IN  Concat([c \in DOMAIN last.contexts |->
                        [r \in DOMAIN rest |->
                            WithInput(rest[r], last.name, last.contexts[c])]])

\* The permutations of the modifiers of a document: for each context of
\* the first modifier in turn, the permutations of the modifiers after it.
RECURSIVE generatePermutationsOf(_)
generatePermutationsOf(defs) ==
    IF Len(defs) = 0 THEN << <<>> >>
    ELSE LET first == Head(defs)
             rest == generatePermutationsOf(Tail(defs))
         IN  Concat([c \in DOMAIN first.contexts |->
                        [r \in DOMAIN rest |->
                            WithInput(rest[r], first.name, first.contexts[c])]])

\* the names of modifiers and contexts: the modifiers share their contexts
Digits == <<"1", "2", "3", "4", "5", "6", "7", "8", "9">>
ModifierName(j) == <<Word("modifier"), Sep(Digits[j])>>
ContextName(c) == <<Word("context"), Sep(Digits[c])>>

\* the document whose j-th modifier has counts[j] contexts
CountedModifiers(counts) ==
    [j \in DOMAIN counts |->
        ModifierDef(ModifierName(j),
                    [c \in 1..counts[j] |-> ContextName(c)],
                    ContextName(1))]

\* the sequences of at most n elements of S
RECURSIVE SeqsUpTo(_, _)
SeqsUpTo(S, n) ==
    IF n = 0 THEN {<<>>}
    ELSE LET shorter == SeqsUpTo(S, n - 1)
         IN  shorter \cup {Append(s, x) : s \in {t \in shorter : Len(t) = n - 1},
                                          x \in S}

PermutationsCalled == [pc |-> "called", permutationInputs |-> <<>>, i |-> 0]

PermutationsInit ==
    /\ PipelineUnused
    /\ \E counts \in SeqsUpTo(1..MaxContextsPer, MaxModifiers) :
           input = [call |-> "generatePermutations",
                    modifiers |-> CountedModifiers(counts)]
    /\ run = PermutationsCalled

\* discoveryEngine.resolutionEngine.generatePermutations()
GeneratePermutations ==
    /\ input.call = "generatePermutations"
    /\ run.pc = "called"
    /\ run' = [run EXCEPT !.pc = "map", !.i = 1,
                          !.permutationInputs =
                              generatePermutationsOf(input.modifiers)]
    /\ UNCHANGED <<pipelineVars, input>>

\* permutationInputs.map: the callback is called with the next permutation
MapPermutation ==
    /\ input.call = "generatePermutations"
    /\ run.pc = "map"
    /\ run.i <= Len(run.permutationInputs)
    /\ run' = [run EXCEPT !.i = @ + 1]
    /\ UNCHANGED <<pipelineVars, input>>

MapPermutationsEnds ==
    /\ input.call = "generatePermutations"
    /\ run.pc = "map"
    /\ run.i > Len(run.permutationInputs)
    /\ run' = [run EXCEPT !.pc = "mapped"]
    /\ UNCHANGED <<pipelineVars, input>>

PermutationsNext ==
    \/ GeneratePermutations
    \/ MapPermutation
    \/ MapPermutationsEnds

PermutationsSpec == PermutationsInit /\ [][PermutationsNext]_vars

\* the product of the numbers of contexts of the modifiers from j on
RECURSIVE ContextsFrom(_)
ContextsFrom(j) ==
    IF j > Len(input.modifiers) THEN 1
    ELSE Len(input.modifiers[j].contexts) * ContextsFrom(j + 1)

\* C20: the sequence generatePermutations has returned is the Cartesian
\* product of the contexts of the modifiers in lexicographic order: it has
\* one permutation per choice of contexts, and the permutation at position
\* p holds, for the j-th modifier, the context whose place is the j-th
\* digit of p - 1 written with the first modifier as the most significant
\* digit, so that the first modifier varies slowest and the last fastest.
C20_LexicographicProduct ==
    run.pc # "called" =>
        /\ Len(run.permutationInputs) = ContextsFrom(1)
        /\ \A p \in DOMAIN run.permutationInputs :
               /\ DOMAIN run.permutationInputs[p] =
                      {input.modifiers[j].name : j \in DOMAIN input.modifiers}
               /\ \A j \in DOMAIN input.modifiers :
                      LET contexts == input.modifiers[j].contexts
                          digit == ((p - 1) \div ContextsFrom(j + 1))
                                       % Len(contexts)
                      IN  run.permutationInputs[p][input.modifiers[j].name]
                              = contexts[digit + 1]

\* The permutations of three modifiers of two, three and two contexts have
\* been generated and walked through.
C20_Witness ==
    /\ run.pc = "mapped"
    /\ Len(input.modifiers) = 3
    /\ Len(input.modifiers[1].contexts) = 2
    /\ Len(input.modifiers[2].contexts) = 3
    /\ Len(input.modifiers[3].contexts) = 2
    /\ Len(run.permutationInputs) = 12
(***************************************************************************)
(* Built-in transforms and Stage 9 on resolved tokens that carry name,     *)
(* path and $type.  A $value is [shape, num, unit, text]: a number; a      *)
(* string, read as the digits of num followed by the text unit, or the     *)
(* word text when it has no digits; an object { value, unit }; a color     *)
(* object.  A number is k * 10^exp or NaN.                                 *)
(***************************************************************************)
\* the longest list of transforms that is followed
MaxTransforms == 2

NaN == [nan |-> TRUE, k |-> 0, exp |-> 0]
Num(k) == [nan |-> FALSE, k |-> k, exp |-> 0]
\* x * 1000 and x / 1000
Times1000(x) == IF x.nan THEN x ELSE [x EXCEPT !.exp = @ + 3]
Over1000(x) == IF x.nan THEN x ELSE [x EXCEPT !.exp = @ - 3]

NumberValue(x) == [shape |-> "number", num |-> x, unit |-> "", text |-> ""]
\* the string of the digits of x, if it is a number, followed by unit
NumericString(x, unit) ==
    [shape |-> "string", num |-> x, unit |-> unit, text |-> ""]
WordString(text) == [shape |-> "string", num |-> NaN, unit |-> "", text |-> text]
\* { value: x, unit }, x a number or something Number() makes NaN of
DurationObject(x, unit) ==
    [shape |-> "object", num |-> x, unit |-> unit, text |-> ""]
\* a color object: one the converters accept, one they throw on, one that
\* is formatted as the empty string
ColorObject(text) ==
    [shape |-> "color", num |-> NaN, unit |-> "", text |-> text]

TokenTypes == {"color", "duration", "fontWeight", "dimension"}

TokenValues ==
    {NumberValue(Num(400)), NumberValue(Num(2)),
     NumericString(Num(2), "ms"), NumericString(Num(2), "s"),
     NumericString(NaN, "ms"), NumericString(NaN, "s"),
     WordString("Bold"), WordString("sturdy"),
     DurationObject(Num(2), "ms"), DurationObject(Num(2), "s"),
     DurationObject(NaN, "s"), DurationObject(Num(2), "min"),
     ColorObject("valid"), ColorObject("invalid"), ColorObject("unformattable")}

\* value.endsWith(suffix) for a string value
endsWith(value, suffix) ==
    IF value.text # "" THEN FALSE
    ELSE IF suffix = "ms" THEN value.unit = "ms"
    ELSE value.unit \in {"s", "ms"}

\* weightMap[value.toLowerCase()], NaN standing for undefined
weightMap(value) ==
    IF value.text = "Bold" THEN Num(700) ELSE NaN

\* the $type the matcher of a built-in transform asks for
matcher(tr, token) ==
    IF tr \in {"color:hex", "color:oklch"} THEN token.type = "color"
    ELSE IF tr = "fontWeight:number" THEN token.type = "fontWeight"
    ELSE IF tr \in {"duration:ms", "duration:seconds"}
    THEN token.type = "duration"
    ELSE TRUE

createColorTransform(token) ==
    LET value == token.value
    IN  IF value.shape # "color" THEN token
        ELSE IF value.text = "invalid" THEN token
        ELSE [token EXCEPT !.value = WordString("#hex")]

createModernColorTransform(token) ==
    LET value == token.value
    IN  IF value.shape # "color" THEN token
        ELSE IF value.text = "invalid" THEN token
        ELSE IF value.text = "unformattable" THEN token
        ELSE [token EXCEPT !.value = WordString("oklch()")]

fontWeightToNumber(token) ==
    LET value == token.value
    IN  IF value.shape = "number" THEN token
        ELSE IF value.shape = "string" /\ ~weightMap(value).nan
        THEN [token EXCEPT !.value = NumberValue(weightMap(value))]
        ELSE token

\* durationToMs with the token's $type rewritten along with its $value
durationToMsRetyped(token) ==
    LET rawValue == token.value
    IN  IF rawValue.shape = "object" /\ rawValue.unit = "s" /\ ~rawValue.num.nan
        THEN [token EXCEPT
                 !.value = DurationObject(Times1000(rawValue.num), "ms"),
                 !.type = "number"]
        ELSE token

durationToMs(token) ==
    LET rawValue == token.value
        value == IF rawValue.shape \in {"string", "number"}
                 THEN rawValue ELSE WordString("")
    IN  IF rawValue.shape = "object"
        THEN IF ~rawValue.num.nan /\ rawValue.unit = "s"
             THEN [token EXCEPT
                      !.value = DurationObject(Times1000(rawValue.num), "ms")]
             ELSE token
        ELSE IF rawValue.shape = "color" THEN token
        ELSE IF endsWith(value, "ms")
        THEN IF ~value.num.nan
             THEN [token EXCEPT !.value = DurationObject(value.num, "ms")]
             ELSE token
        ELSE IF endsWith(value, "s")
        THEN [token EXCEPT
                 !.value = DurationObject(Times1000(value.num), "ms")]
        ELSE token

durationToSeconds(token) ==
    LET rawValue == token.value
        value == IF rawValue.shape \in {"string", "number"}
                 THEN rawValue ELSE WordString("")
    IN  IF rawValue.shape = "object"
        THEN IF ~rawValue.num.nan /\ rawValue.unit = "ms"
             THEN [token EXCEPT
                      !.value = DurationObject(Over1000(rawValue.num), "s")]
             ELSE token
        ELSE IF rawValue.shape = "color" THEN token
        ELSE IF endsWith(value, "s") /\ ~endsWith(value, "ms")
        THEN IF ~value.num.nan
             THEN [token EXCEPT !.value = DurationObject(value.num, "s")]
             ELSE token
        ELSE IF endsWith(value, "ms")
        THEN [token EXCEPT
                 !.value = DurationObject(Over1000(value.num), "s")]
        ELSE token

\* a name transform: the name gets a prefix
namePrefix(token) == [token EXCEPT !.name = <<Word("ds"), Dash>> \o @]

BuiltInTransforms ==
    {"color:hex", "color:oklch", "fontWeight:number", "duration:ms",
     "duration:seconds", "name:prefix"}

\* transform.transform(token)
transform(tr, token) ==
    IF tr = "color:hex" THEN createColorTransform(token)
    ELSE IF tr = "color:oklch" THEN createModernColorTransform(token)
    ELSE IF tr = "fontWeight:number" THEN fontWeightToNumber(token)
    ELSE IF tr = "duration:ms" THEN durationToMs(token)
    ELSE IF tr = "duration:seconds" THEN durationToSeconds(token)
    ELSE namePrefix(token)

\* one transform over the tokens of a table: the tokens its matcher takes
applyTransform(tokens, tr) ==
    [n \in DOMAIN tokens |->
        IF matcher(tr, tokens[n]) THEN transform(tr, tokens[n]) ELSE tokens[n]]

ResolvedToken(name, type, value) ==
    [name |-> name, path |-> split(name, Sep(".")), type |-> type,
     value |-> value]

TransformCalled == [pc |-> "called", tokens |-> <<>>, i |-> 0]

TransformInit ==
    /\ PipelineUnused
    /\ \E type \in TokenTypes, value \in TokenValues,
          transformList \in SeqsUpTo(BuiltInTransforms, MaxTransforms),
          defined \in BOOLEAN :
           input =
               [call |-> "applyTransformStage",
                aliasResolvedTokens |->
                    [n \in {"first", "second"} |->
                        IF n = "first"
                        THEN ResolvedToken(<<Word("group"), Sep("."), Word("first")>>,
                                           type, value)
                        ELSE ResolvedToken(<<Word("second")>>, "duration",
                                           DurationObject(Num(1), "s"))],
                transformList |-> transformList,
                defined |-> defined \/ transformList # <<>>]
    /\ run = TransformCalled

\* applyTransformStage: with no transform the tokens are those of Stage 8.
ApplyTransformStage ==
    /\ input.call = "applyTransformStage"
    /\ run.pc = "called"
    /\ run' =
           IF input.defined /\ Len(input.transformList) > 0
           THEN [run EXCEPT !.pc = "applyTransforms", !.i = 1,
                            !.tokens = input.aliasResolvedTokens]
           ELSE [run EXCEPT !.pc = "returned",
                            !.tokens = input.aliasResolvedTokens]
    /\ UNCHANGED <<pipelineVars, input>>

\* applyTransforms: the next transform of the list over the tokens
ApplyNextTransform ==
    /\ input.call = "applyTransformStage"
    /\ run.pc = "applyTransforms"
    /\ run.i <= Len(input.transformList)
    /\ run' = [run EXCEPT
                  !.tokens = applyTransform(@, input.transformList[run.i]),
                  !.i = @ + 1]
    /\ UNCHANGED <<pipelineVars, input>>

ApplyTransformStageReturns ==
    /\ input.call = "applyTransformStage"
    /\ run.pc = "applyTransforms"
    /\ run.i > Len(input.transformList)
    /\ run' = [run EXCEPT !.pc = "returned"]
    /\ UNCHANGED <<pipelineVars, input>>

TransformNext ==
    \/ ApplyTransformStage
    \/ ApplyNextTransform
    \/ ApplyTransformStageReturns

TransformSpec == TransformInit /\ [][TransformNext]_vars

isAbsolute(p) == Len(p) > 0 /\ p[1] = "/"

\* the segments of p with every ".." and the segment before it removed
RECURSIVE normalize(_)
normalize(p) ==
    IF Len(p) = 0 THEN p
    ELSE LET init == normalize(SubSeq(p, 1, Len(p) - 1))
             last == p[Len(p)]
         IN  IF last # ".." THEN Append(init, last)
             ELSE IF Len(init) > 1 THEN SubSeq(init, 1, Len(init) - 1)
             ELSE init

\* path.resolve(base, p) for an absolute base
resolve(base, p) == IF isAbsolute(p) THEN normalize(p) ELSE normalize(base \o p)

FilePaths ==
    {<<"/", "tokens", "core.json">>, <<"core.json">>, <<"..", "core.json">>}
BaseDirs == {<<>>, <<"/", "design">>, <<"/", "design", "sets">>}
WorkingDirs == {<<"/", "work">>, <<"/", "home", "project">>}

\* what access and readFile may reject with
AccessErrors == {"ENOENT", "EACCES"}
ReadErrors == {"ENOENT", "EISDIR", "EIO"}

NoError ==
    [class |-> "-", operation |-> "-", path |-> <<>>, cause |-> "-",
     message |-> "-"]

FileOperationError(operation, filePath, cause) ==
    [class |-> "FileOperationError", operation |-> operation,
     path |-> filePath, cause |-> cause, message |-> "Failed to read file"]

\* new ValidationError(`Failed to read or parse file ${path}: ${errorMsg}`)
ReadValidationError(filePath, errorMsg) ==
    [class |-> "ValidationError", operation |-> "-", path |-> filePath,
     cause |-> "-", message |-> errorMsg]

ReadCalled == [pc |-> "called", absolutePath |-> <<>>, error |-> NoError]

ReadInit ==
    /\ PipelineUnused
    /\ \E filePath \in FilePaths, baseDir \in BaseDirs, cwd \in WorkingDirs,
          accessResult \in {"ok"} \cup AccessErrors,
          readResult \in {"json", "not json"} \cup ReadErrors :
           input = [call |-> "readJSONFile", filePath |-> filePath,
                    baseDir |-> baseDir, cwd |-> cwd,
                    accessResult |-> accessResult, readResult |-> readResult]
    /\ run = ReadCalled

\* readJSONFile up to its first await: access is called on the absolute path
ReadJSONFile ==
    /\ input.call = "readJSONFile"
    /\ run.pc = "called"
    /\ run' = [run EXCEPT
                  !.pc = "access",
                  !.absolutePath =
                      IF isAbsolute(input.filePath) THEN input.filePath
                      ELSE resolve(IF input.baseDir # <<>> THEN input.baseDir
                                   ELSE input.cwd,
                                   input.filePath)]
    /\ UNCHANGED <<pipelineVars, input>>

\* access settles and its rejection is not looked at: the file is read
AccessSettlesUnchecked ==
    /\ input.call = "readJSONFile"
    /\ run.pc = "access"
    /\ run' = [run EXCEPT !.pc = "readFile"]
    /\ UNCHANGED <<pipelineVars, input>>

\* access settles: readFile is called, or FileOperationError is thrown
AccessSettles ==
    /\ input.call = "readJSONFile"
    /\ run.pc = "access"
    /\ run' =
           IF input.accessResult = "ok"
           THEN [run EXCEPT !.pc = "readFile"]
           ELSE [run EXCEPT
                    !.pc = "thrown",
                    !.error = FileOperationError("read", run.absolutePath,
                                                 input.accessResult)]
    /\ UNCHANGED <<pipelineVars, input>>

\* readFile settles: the content is parsed and returned; a rejection of
\* readFile and an exception of JSON.parse are caught by one handler
ReadFileSettles ==
    /\ input.call = "readJSONFile"
    /\ run.pc = "readFile"
    /\ run' =
           IF input.readResult = "json"
           THEN [run EXCEPT !.pc = "returned"]
           ELSE [run EXCEPT
                    !.pc = "thrown",
                    !.error =
                        ReadValidationError(
                            run.absolutePath,
                            IF input.readResult = "not json"
                            THEN "SyntaxError" ELSE input.readResult)]
    /\ UNCHANGED <<pipelineVars, input>>

ReadNext ==
    \/ ReadJSONFile
    \/ AccessSettles
    \/ ReadFileSettles

ReadSpec == ReadInit /\ [][ReadNext]_vars

\* the I/O failure readJSONFile has met, "-" if it has met none
IoFailure ==
    IF run.pc \in {"called", "access"} THEN "-"
    ELSE IF input.accessResult # "ok" THEN input.accessResult
    ELSE IF run.pc # "readFile" /\ input.readResult \in ReadErrors
    THEN input.readResult
    ELSE "-"

\* the path of the file from the root
ExpectedPath ==
    IF input.filePath[1] = "/" THEN input.filePath
    ELSE LET from == IF input.baseDir = <<>> THEN input.cwd ELSE input.baseDir
         IN  IF input.filePath[1] = ".."
             THEN SubSeq(from, 1, Len(from) - 1) \o Tail(input.filePath)
             ELSE from \o input.filePath

\* C22 as stated: whenever readJSONFile has met an I/O failure, of the
\* access check or of the read, it has thrown FileOperationError with the
\* operation "read", the absolute path and the failure as its cause.
C22_IoFailureIsFileOperationError ==
    IoFailure # "-" =>
        /\ run.pc = "thrown"
        /\ run.error.class = "FileOperationError"
        /\ run.error.operation = "read"
        /\ run.error.path = ExpectedPath
        /\ run.error.cause = IoFailure

\* C22 as amended: a failure of the access check is thrown as
\* FileOperationError with the operation "read", the absolute path and the
\* failure as its cause; a failure of the read after a successful access
\* check is thrown as ValidationError, with the absolute path and the
\* message of the failure in its message.
C22_AccessFailureIsFileOperationError ==
    IoFailure # "-" =>
        /\ run.pc = "thrown"
        /\ run.error.path = ExpectedPath
        /\ IF input.accessResult # "ok"
           THEN /\ run.error.class = "FileOperationError"
                /\ run.error.operation = "read"
                /\ run.error.cause = input.accessResult
           ELSE /\ run.error.class = "ValidationError"
                /\ run.error.message = input.readResult

\* readJSONFile has thrown FileOperationError for a relative path above the
\* base directory it was given.
C22_Witness ==
    /\ run.pc = "thrown"
    /\ run.error.class = "FileOperationError"
    /\ input.filePath = <<"..", "core.json">>
    /\ run.error.path = <<"/", "design", "core.json">>
(***************************************************************************)
(* What user-supplied callbacks are handed.  The tokens of the             *)
(* permutations carry _sourceSet and _sourceModifier from the merge on;    *)
(* each call of a filter, a transform, a custom renderer or a formatter    *)
(* callback is recorded with the tokens it is handed.                      *)
(***************************************************************************)
Renderers == {"custom", "css", "js", "json"}

\* a record of one call of a callback
Handed(to, tokens) == [to |-> to, tokens |-> tokens]

\* the transformed tokens with the provenance of the tokens they come from
WithProvenance(clean, tokens) ==
    [n \in DOMAIN clean |->
        [name |-> clean[n].name, value |-> clean[n].value,
         sourceSet |-> tokens[n].sourceSet,
         sourceModifier |-> tokens[n].sourceModifier]]

PluginCalled == [pc |-> "called", data |-> <<>>, handed |-> <<>>]

PluginInit ==
    /\ PipelineUnused
    /\ \E cased \in BOOLEAN, renderer \in Renderers,
          filterList \in {<<>>, <<{"spacing", "primary"}>>},
          transformList \in {<<>>, <<"capitalize">>} :
         LET defs == CssModifierDefs(cased)
             names == {defs[i].name : i \in DOMAIN defs}
         IN  \E base \in AllInputs(defs), contributing \in SUBSET names,
                permutations \in InjectiveSeqs(AllInputs(defs), MaxItems - 1) :
                 input =
                     [call |-> "plugins",
                      bundleData |-> BundleData(permutations, base, contributing),
                      resolver |->
                          [modifiers |->
                               [present |-> TRUE,
                                defs |-> WithDefaults(defs, base)],
                           resolutionOrder |->
                               <<SetRef(Str("core")),
                                 ModifierRef(Declared(Theme, cased))>>],
                      options |-> [selector |-> UndefinedStr],
                      filterList |-> filterList,
                      transformList |-> transformList,
                      renderer |-> renderer]
    /\ run = PluginCalled

\* Stage 8 of every permutation: the filters see the tokens without their
\* provenance, and the tokens that pass keep it.
FiltersCalled ==
    /\ input.call = "plugins"
    /\ run.pc = "called"
    /\ run' =
           IF Len(input.filterList) > 0
           THEN [run EXCEPT
                    !.pc = "filtered",
                    !.data = [i \in DOMAIN input.bundleData |->
                                 [input.bundleData[i] EXCEPT
                                     !.tokens = applyFilters(@, input.filterList)]],
                    !.handed =
                        [i \in DOMAIN input.bundleData |->
                            Handed("filter",
                                   stripInternalMetadata(
                                       input.bundleData[i].tokens))]]
           ELSE [run EXCEPT !.pc = "filtered", !.data = input.bundleData]
    /\ UNCHANGED <<pipelineVars, input>>

\* Stage 9 of every permutation: the transforms see and return tokens
\* without provenance, which the tokens of the stage get back.
TransformsCalled ==
    /\ input.call = "plugins"
    /\ run.pc = "filtered"
    /\ run' =
           IF Len(input.transformList) > 0
           THEN LET clean(i) == stripInternalMetadata(run.data[i].tokens)
                    mapped(i) ==
                        [n \in DOMAIN clean(i) |->
                            [clean(i)[n] EXCEPT !.value = Capitalize(@)]]
                IN  [run EXCEPT
                        !.pc = "transformed",
                        !.data = [i \in DOMAIN run.data |->
                                     [run.data[i] EXCEPT
                                         !.tokens = WithProvenance(mapped(i), @)]],
                        !.handed = @ \o [i \in DOMAIN run.data |->
                                            Handed("transform", clean(i))]]
           ELSE [run EXCEPT !.pc = "transformed"]
    /\ UNCHANGED <<pipelineVars, input>>

\* The renderer of the output is called.  A custom renderer is handed the
\* permutations without provenance; a built-in bundling renderer keeps it
\* for its bundler.
RendererCalled ==
    /\ input.call = "plugins"
    /\ run.pc = "transformed"
    /\ run' =
           IF input.renderer = "custom"
           THEN [run EXCEPT
                    !.pc = "returned",
                    !.handed = @ \o [i \in DOMAIN run.data |->
                                        Handed("renderer",
                                               stripInternalMetadata(
                                                   run.data[i].tokens))]]
           ELSE [run EXCEPT !.pc = "bundling"]
    /\ UNCHANGED <<pipelineVars, input>>

\* the formatter calls of the CSS bundler for the items in their order:
\* the tokens of each block, and the reference tokens of its options
RECURSIVE CssHandovers(_, _)
CssHandovers(items, baseItem) ==
    IF Len(items) = 0 THEN <<>>
    ELSE LET blocks == IF Head(items).isBase
                       THEN formatBasePermutation(Head(items), input.resolver)
                       ELSE formatModifierPermutation(Head(items), baseItem)
         IN  Concat([i \in DOMAIN blocks |->
                        <<Handed("formatter", blocks[i].css.tokens),
                          Handed("formatter",
                                 blocks[i].css.options.referenceTokens)>>])
                 \o CssHandovers(Tail(items), baseItem)

\* the bundler hands the formatter the tokens of the items as they are
FormatterCalledWithItemTokens ==
    /\ input.call = "plugins"
    /\ run.pc = "bundling"
    /\ run' = [run EXCEPT
                  !.pc = "returned",
                  !.handed = @ \o [i \in DOMAIN run.data |->
                                      Handed("formatter", run.data[i].tokens)]]
    /\ UNCHANGED <<pipelineVars, input>>

\* The bundler of a built-in renderer calls the formatter callback it was
\* given: bundleAsCss block by block, bundleAsJsModule and bundleAsJson
\* permutation by permutation.
FormatterCalled ==
    /\ input.call = "plugins"
    /\ run.pc = "bundling"
    /\ LET baseItem == findBaseItem(run.data)
           calls ==
               IF input.renderer = "css"
               THEN IF baseItem = Undefined THEN <<>>
                    ELSE CssHandovers(orderBundleData(run.data, input.resolver,
                                                      run.data[baseItem]),
                                      run.data[baseItem])
               ELSE [i \in DOMAIN run.data |->
                        Handed("formatter",
                               stripInternalMetadata(run.data[i].tokens))]
       IN  run' = [run EXCEPT !.pc = "returned", !.handed = @ \o calls]
    /\ UNCHANGED <<pipelineVars, input>>

PluginNext ==
    \/ FiltersCalled
    \/ TransformsCalled
    \/ RendererCalled
    \/ FormatterCalled

PluginSpec == PluginInit /\ [][PluginNext]_vars

\* some token of the table has a _sourceSet or a _sourceModifier
CarriesProvenance(tokens) ==
    \E n \in DOMAIN tokens :
        {"sourceSet", "sourceModifier"} \cap DOMAIN tokens[n] # {}

MaxCalls == 3

\* the inline source standing where file f would
InlineObj(f) == [k |-> "inline", c |-> 0, i |-> f]

RepeatObjIds ==
    {FileObj(c, f) : c \in 1..MaxCalls, f \in Files}
        \cup {InlineObj(f) : f \in Files}
        \cup {DocObj(c) : c \in 1..MaxCalls}
        \cup {ResObj(c) : c \in 1..MaxCalls}

Fulfilled(tokens) == [status |-> "fulfilled", tokens |-> tokens, error |-> "-"]
Rejected(error) == [status |-> "rejected", tokens |-> NoTokens, error |-> error]

RepeatIdle ==
    [pc |-> "idle", engine |-> NoEngine, doc |-> NoObj, results |-> <<>>,
     heap |-> [o \in RepeatObjIds |-> EmptyDoc]]

RepeatInit ==
    /\ PipelineUnused
    /\ \E c \in [inputs : Contexts, mode : Modes, coreB : BValues,
                 missing : Files \cup {NoFile}, plugins : PluginChoices,
                 inline : BOOLEAN] :
         /\ input = [call |-> "resolveRepeatedly", cfg |-> c]
         /\ run = [RepeatIdle EXCEPT
                      !.heap = [o \in RepeatObjIds |->
                                   IF c.inline /\ o.k = "inline"
                                   THEN FileContent(o.i, c.coreB)
                                   ELSE EmptyDoc]]

\* the call being made
CallNo == Len(run.results) + 1

\* The call has ended with result r.
Returns(r, h) ==
    [run EXCEPT !.pc = "idle", !.engine = NoEngine, !.doc = NoObj,
                !.results = Append(@, r), !.heap = h]

\* Stages 1 and 2: the resolver is loaded and the call gets an engine of its
\* own, with a reference resolver and a file cache of its own.
ResolveCalled ==
    /\ input.call = "resolveRepeatedly"
    /\ run.pc = "idle"
    /\ CallNo <= MaxCalls
    /\ run' = [run EXCEPT !.pc = "resolveTokens",
                          !.engine = createEngine(CallNo, Undefined)]
    /\ UNCHANGED <<pipelineVars, input>>

\* the sources merged into the document of the last source
ResolveTokensSettlesInPlace ==
    /\ input.call = "resolveRepeatedly"
    /\ run.pc = "resolveTokens"
    /\ LET c == input.cfg
           srcs == Sources(c.inputs)
           failed == {i \in DOMAIN srcs :
                         ~c.inline /\ ~readJSONFile(srcs[i], c).ok}
           objs == [i \in DOMAIN srcs |->
                       IF c.inline THEN InlineObj(srcs[i])
                       ELSE FileObj(run.engine.cache, srcs[i])]
           read == [o \in RepeatObjIds |->
                       IF ~c.inline /\ \E i \in DOMAIN srcs : objs[i] = o
                       THEN FileContent(o.i, c.coreB) ELSE run.heap[o]]
           last == objs[Len(objs)]
       IN  run' = IF failed # {}
                  THEN Returns(Rejected("FileOperationError"), run.heap)
                  ELSE [run EXCEPT
                           !.pc = "preprocessTokens",
                           !.doc = last,
                           !.heap = [read EXCEPT ![last] =
                                        mergeDocuments(
                                            [i \in DOMAIN objs |-> read[objs[i]]])]]
    /\ UNCHANGED <<pipelineVars, input>>

\* Stage 3: the sources of the permutation, parsed from their files or taken
\* from the resolver document, are merged.
ResolveTokensSettles ==
    /\ input.call = "resolveRepeatedly"
    /\ run.pc = "resolveTokens"
    /\ LET c == input.cfg
           srcs == Sources(c.inputs)
           failed == {i \in DOMAIN srcs :
                         ~c.inline /\ ~readJSONFile(srcs[i], c).ok}
           objs == [i \in DOMAIN srcs |->
                       IF c.inline THEN InlineObj(srcs[i])
                       ELSE FileObj(run.engine.cache, srcs[i])]
           read == [o \in RepeatObjIds |->
                       IF ~c.inline /\ \E i \in DOMAIN srcs : objs[i] = o
                       THEN FileContent(o.i, c.coreB) ELSE run.heap[o]]
           m == mergeSources(read, CallNo, objs)
       IN  run' = IF failed # {}
                  THEN Returns(Rejected("FileOperationError"), run.heap)
                  ELSE [run EXCEPT !.pc = "preprocessTokens",
                                   !.doc = m.doc, !.heap = m.heap]
    /\ UNCHANGED <<pipelineVars, input>>

\* Stage 4
PreprocessSettles ==
    /\ input.call = "resolveRepeatedly"
    /\ run.pc = "preprocessTokens"
    /\ LET r == preprocessTokens(run.heap, run.doc, input.cfg.plugins.pre)
       IN  run' = IF r.ok
                  THEN [run EXCEPT !.pc = "resolveReferences", !.heap = r.heap]
                  ELSE Returns(Rejected("PreprocessorError"), r.heap)
    /\ UNCHANGED <<pipelineVars, input>>

\* stages 6 to 9 over document d, and the return of the call
FlattenToReturn(d, c) ==
    LET aliased == aliasResolve(flatten(d))
        filtered == IF Len(c.plugins.filters) > 0
                    THEN applyFilters(aliased.tokens, c.plugins.filters)
                    ELSE aliased.tokens
        transformed == applyTransforms(filtered, c.plugins.transforms)
    IN  IF ~aliased.ok THEN Rejected(aliased.error)
        ELSE IF Len(c.plugins.transforms) = 0 THEN Fulfilled(filtered)
        ELSE IF transformed.ok THEN Fulfilled(transformed.tokens)
        ELSE Rejected("TransformError")

\* Stage 5 settles and the call runs to its return.
ReferencesSettle ==
    /\ input.call = "resolveRepeatedly"
    /\ run.pc = "resolveReferences"
    /\ LET c == input.cfg
           r == resolveDeepTokenDocument(run.heap[run.doc])
           h == [run.heap EXCEPT ![ResObj(CallNo)] = r.doc]
       IN  run' = IF r.ok THEN Returns(FlattenToReturn(r.doc, c), h)
                  ELSE IF handleIssue(c.mode, CallNo, r.error).throws
                  THEN Returns(Rejected(r.error), run.heap)
                  ELSE Returns(FlattenToReturn(run.heap[run.doc], c), run.heap)
    /\ UNCHANGED <<pipelineVars, input>>

RepeatNext ==
    \/ ResolveCalled
    \/ ResolveTokensSettles
    \/ PreprocessSettles
    \/ ReferencesSettle

RepeatSpec == RepeatInit /\ [][RepeatNext]_vars

NodeKinds == {"object", "array", "null", "string"}

Nodes ==
    {n \in [kind : NodeKinds, hasValue : BOOLEAN, hasRef : BOOLEAN,
            wellFormed : BOOLEAN] :
        n.kind # "object" => ~n.hasValue /\ ~n.hasRef /\ n.wellFormed}

\* a hook left out, one that returns no errors, one that adds an error
Hooks == {"none", "clear", "add"}

\* the token schema: an object with $value or $ref
tokenSchema(data) ==
    IF data.kind # "object" THEN <<"must be object">>
    ELSE (IF data.hasValue \/ data.hasRef THEN <<>>
          ELSE <<"must have required property">>)
         \o (IF data.wellFormed THEN <<>> ELSE <<"must match format">>)

\* the group schema: an object without $value and $ref
groupSchema(data) ==
    IF data.kind # "object" THEN <<"must be object">>
    ELSE (IF data.hasValue THEN <<"must NOT have $value">> ELSE <<>>)
         \o (IF data.hasRef THEN <<"must NOT have $ref">> ELSE <<>>)
         \o (IF data.wellFormed THEN <<>> ELSE <<"must match format">>)

applyHook(hook, errors) ==
    IF hook = "clear" THEN <<>>
    ELSE IF hook = "add" THEN Append(errors, "hook")
    ELSE errors

\* validate: the errors of the schema, then the global hook, then the hook
\* registered for the schema
validate(schemaName, data, options) ==
    LET errors == IF schemaName = "token" THEN tokenSchema(data)
                  ELSE groupSchema(data)
    IN  applyHook(options.typeValidators[schemaName],
                  applyHook(options.onValidate, errors))

validateToken(data, options) == validate("token", data, options)
validateGroup(data, options) == validate("group", data, options)

ValidateCalled == [pc |-> "called", groupErrors |-> <<>>, result |-> Undefined]

ValidateInit ==
    /\ PipelineUnused
    /\ \E obj \in Nodes, onValidate \in Hooks,
          typeValidators \in [{"token", "group"} -> Hooks] :
         input = [call |-> "validateTokenOrGroup", obj |-> obj,
                  options |-> [onValidate |-> onValidate,
                               typeValidators |-> typeValidators]]
    /\ run = ValidateCalled

\* the structural hint
hasValue(obj) == obj.kind \in {"object", "array"} /\ (obj.hasValue \/ obj.hasRef)

\* a node that looks like a token is a token or invalid
ValidateAsToken ==
    /\ input.call = "validateTokenOrGroup"
    /\ run.pc = "called"
    /\ hasValue(input.obj)
    /\ LET tokenErrors == validateToken(input.obj, input.options)
       IN  run' = [run EXCEPT
                      !.pc = "returned",
                      !.result =
                          IF Len(tokenErrors) = 0
                          THEN [type |-> "token", errors |-> <<>>]
                          ELSE [type |-> "invalid", errors |-> tokenErrors]]
    /\ UNCHANGED <<pipelineVars, input>>

\* a node that looks like a group and validates as one is a group
ValidateAsGroup ==
    /\ input.call = "validateTokenOrGroup"
    /\ run.pc = "called"
    /\ ~hasValue(input.obj)
    /\ LET groupErrors == validateGroup(input.obj, input.options)
       IN  run' = IF Len(groupErrors) = 0
                  THEN [run EXCEPT !.pc = "returned",
                                   !.result = [type |-> "group", errors |-> <<>>]]
                  ELSE [run EXCEPT !.pc = "failedAsGroup",
                                   !.groupErrors = groupErrors]
    /\ UNCHANGED <<pipelineVars, input>>

\* a node that failed as a group is tried as a token
ValidateAsTokenAfterGroup ==
    /\ input.call = "validateTokenOrGroup"
    /\ run.pc = "failedAsGroup"
    /\ LET tokenErrors == validateToken(input.obj, input.options)
       IN  run' = [run EXCEPT
                      !.pc = "returned",
                      !.result =
                          IF Len(tokenErrors) = 0
                          THEN [type |-> "token", errors |-> <<>>]
                          ELSE [type |-> "invalid",
                                errors |-> IF Len(run.groupErrors) < Len(tokenErrors)
                                           THEN run.groupErrors ELSE tokenErrors]]
    /\ UNCHANGED <<pipelineVars, input>>

ValidateNext ==
    \/ ValidateAsToken
    \/ ValidateAsGroup
    \/ ValidateAsTokenAfterGroup

ValidateSpec == ValidateInit /\ [][ValidateNext]_vars

\* C25: validateTokenOrGroup returns type 'token' only for an object that
\* carries $value or $ref, and type 'group' only for an object that carries
\* neither.
C25_TokenIffValueOrRef ==
    (input.call = "validateTokenOrGroup" /\ run.pc = "returned") =>
        /\ run.result.type = "token" =>
               input.obj.kind = "object" /\ (input.obj.hasValue \/ input.obj.hasRef)
        /\ run.result.type = "group" =>
               input.obj.kind = "object" /\ ~input.obj.hasValue /\ ~input.obj.hasRef

\* Without hooks the rule holds: the schemas decide as the structural check.
C25_HoldsWithoutHooks ==
    (/\ input.call = "validateTokenOrGroup"
     /\ run.pc = "returned"
     /\ input.options.onValidate = "none"
     /\ \A s \in {"token", "group"} : input.options.typeValidators[s] = "none") =>
        C25_TokenIffValueOrRef
(***************************************************************************)
(* The order of the override blocks.  bundleAsCss is followed for a        *)
(* resolver whose modifier theme has three contexts, so that two           *)
(* permutations may deviate from the base in the same modifier.            *)
(***************************************************************************)
OrderModifierDefs(cased) ==
    <<[name |-> Declared(Theme, cased),
       contexts |-> <<Declared(Str("light"), cased), Declared(Str("dark"), cased),
                      Declared(Str("dim"), cased)>>],
      [name |-> Declared(Brand, cased),
       contexts |-> <<Declared(Str("acme"), cased), Declared(Str("zen"), cased)>>]>>

OrderInit ==
    /\ PipelineUnused
    /\ \E cased \in BOOLEAN, present \in BOOLEAN :
         LET defs == OrderModifierDefs(cased)
             names == {defs[i].name : i \in DOMAIN defs}
         IN  \E base \in AllInputs(defs),
                permutations \in InjectiveSeqs(AllInputs(defs), MaxItems),
                order \in CssResolutionOrders(cased) :
                 input =
                     [call |-> "bundleAsCss",
                      bundleData |-> BundleData(permutations, base, names),
                      resolver |->
                          [modifiers |->
                               [present |-> present,
                                defs |-> IF present THEN WithDefaults(defs, base)
                                         ELSE <<>>],
                           resolutionOrder |-> order],
                      options |-> [selector |-> UndefinedStr],
                      formatTokens |-> TRUE]
    /\ run = CssCalled

OrderSpec == OrderInit /\ [][CssNext]_vars

\* the position of x in sequence s
IndexOf(s, x) == CHOOSE i \in DOMAIN s : s[i] = x

\* the position of context c among the contexts of modifier m
ContextIndex(m, c) ==
    IndexOf(input.resolver.modifiers.defs[ModifierAt(input.resolver, m)].contexts, c)

\* the place of modifier m among the modifiers of the document
DeclarationRank(m) == IndexOf(ModifierKeys(input.resolver), m)

\* the place of modifier m by its first reference in resolutionOrder; a
\* modifier that is not referred to comes after those that are
ReferenceRank(m) ==
    LET refs == input.resolver.resolutionOrder
        hits == {i \in DOMAIN refs : refs[i].kind = "modifiers" /\ refs[i].name = m}
    IN  IF hits # {} THEN First(hits) ELSE Len(refs) + DeclarationRank(m)

\* block i comes before block j as the ranks of their modifiers and the
\* declaration order of their contexts ask
InOrder(i, j, rank(_)) ==
    LET mi == Deviating(run.cssBlocks[i].of)
        mj == Deviating(run.cssBlocks[j].of)
    IN  \/ rank(mi) < rank(mj)
        \/ /\ mi = mj
           /\ ContextIndex(mi, run.cssBlocks[i].of[mi])
                  < ContextIndex(mj, run.cssBlocks[j].of[mj])

\* the override blocks of the bundle
OverrideBlocks == {i \in DOMAIN run.cssBlocks : run.cssBlocks[i].of # CssBase}

\* C28 as stated: the override blocks come grouped by modifier in the order
\* in which the modifiers stand in the resolver document, within a modifier
\* in the declaration order of its contexts, no permutation twice.
C28_OverridesInDocumentOrder ==
    input.resolver.modifiers.present =>
        \A i, j \in OverrideBlocks : i < j => InOrder(i, j, DeclarationRank)

\* C28 as amended: the override blocks come grouped by modifier, the
\* modifiers that resolutionOrder refers to first, in the order of their
\* first reference, then the other modifiers in the order of their
\* declarations; within a modifier in the declaration order of its
\* contexts, no permutation twice.
C28_OverridesInReferenceOrder ==
    input.resolver.modifiers.present =>
        \A i, j \in OverrideBlocks : i < j => InOrder(i, j, ReferenceRank)

\* The bundle has been returned with the override block of brand before
\* that of theme, brand being declared after theme and referred to by
\* resolutionOrder, for bundle data that held them the other way round and
\* the base last.
C28_Witness ==
    /\ run.pc = "returned"
    /\ input.resolver.modifiers.present
    /\ input.resolver.resolutionOrder[1].kind = "modifiers"
    /\ run.baseItem = 3
    /\ toLowerCase(Deviating(input.bundleData[1].modifierInputs)) = Theme
    /\ \E i, j \in OverrideBlocks :
           /\ i < j
           /\ toLowerCase(Deviating(run.cssBlocks[i].of)) = Brand
           /\ run.cssBlocks[j].of = input.bundleData[1].modifierInputs
(***************************************************************************)
(* formatBasePermutation on its own, for tokens of every attribution: a    *)
(* token may name a set, a modifier context in any spelling, both or       *)
(* neither, and resolutionOrder may refer to a set or a modifier more than *)
(* once.                                                                   *)
(***************************************************************************)
LayerSources ==
    [sourceSet : {Str("core"), UndefinedStr},
     sourceModifier : {UndefinedStr,
                       Theme \o <<Dash>> \o Str("light"),
                       Capitalize(Theme) \o <<Dash>> \o Capitalize(Str("light")),
                       Theme \o <<Dash>> \o Str("dark")}]

LayerTokens(sources) ==
    [n \in DOMAIN sources |->
        [name |-> n, value |-> Str("8px"), sourceSet |-> sources[n].sourceSet,
         sourceModifier |-> sources[n].sourceModifier]]

LayerCalled == [pc |-> "called", defaultBlocks |-> <<>>, cssBlocks |-> <<>>]

LayerInit ==
    /\ PipelineUnused
    /\ \E sources \in [{"primary", "spacing"} -> LayerSources],
          present \in BOOLEAN,
          theme \in {Str("light"), Str("dark")},
          order \in SeqsUpTo({SetRef(Str("core")), ModifierRef(Theme),
                              ModifierRef(Brand)}, MaxItems) :
         LET defs == CssModifierDefs(FALSE)
             base == [m \in {Theme, Brand} |->
                         IF m = Theme THEN theme ELSE Str("acme")]
         IN  input =
                 [call |-> "formatBasePermutation",
                  item |-> [tokens |-> LayerTokens(sources),
                            modifierInputs |-> base, isBase |-> TRUE],
                  resolver |->
                      [modifiers |->
                           [present |-> present,
                            defs |-> IF present THEN WithDefaults(defs, base)
                                     ELSE <<>>],
                       resolutionOrder |-> order],
                  options |-> [selector |-> UndefinedStr]]
    /\ run = LayerCalled

\* formatBasePermutation up to its loop: the blocks of the default layer
FormatBasePermutation ==
    /\ input.call = "formatBasePermutation"
    /\ run.pc = "called"
    /\ run' = [run EXCEPT
                  !.pc = "loop",
                  !.defaultBlocks = formatBasePermutation(input.item,
                                                          input.resolver)]
    /\ UNCHANGED <<pipelineVars, input>>

\* One turn of the loop: the formatter has written the rules of a block.
PushDefaultBlock ==
    /\ input.call = "formatBasePermutation"
    /\ run.pc = "loop"
    /\ Len(run.cssBlocks) < Len(run.defaultBlocks)
    /\ run' = [run EXCEPT
                  !.cssBlocks = Append(@, run.defaultBlocks[Len(@) + 1])]
    /\ UNCHANGED <<pipelineVars, input>>

FormatBasePermutationReturns ==
    /\ input.call = "formatBasePermutation"
    /\ run.pc = "loop"
    /\ Len(run.cssBlocks) = Len(run.defaultBlocks)
    /\ run' = [run EXCEPT !.pc = "returned"]
    /\ UNCHANGED <<pipelineVars, input>>

LayerNext ==
    \/ FormatBasePermutation
    \/ PushDefaultBlock
    \/ FormatBasePermutationReturns

LayerSpec == LayerInit /\ [][LayerNext]_vars

\* C29: every token of the base permutation is in exactly one of the blocks
\* emitted for it, with its value, and the blocks hold nothing else.
C29_BaseTokensPartitioned ==
    (input.call = "formatBasePermutation" /\ run.pc = "returned") =>
        /\ \A n \in DOMAIN input.item.tokens :
               Cardinality({i \in DOMAIN run.cssBlocks :
                               n \in DOMAIN run.cssBlocks[i].css.tokens}) = 1
        /\ \A i \in DOMAIN run.cssBlocks :
               \A n \in DOMAIN run.cssBlocks[i].css.tokens :
                   /\ n \in DOMAIN input.item.tokens
                   /\ run.cssBlocks[i].css.tokens[n].value
                          = input.item.tokens[n].value

\* The base has been emitted in two blocks, for a token that names both a
\* set and the default context of a modifier and a resolutionOrder that
\* refers to both, the set twice.
C29_Witness ==
    /\ input.call = "formatBasePermutation"
    /\ run.pc = "returned"
    /\ Len(run.cssBlocks) = 2
    /\ input.resolver.modifiers.present
    /\ input.item.tokens["primary"].sourceSet = Str("core")
    /\ toLowerCase(input.item.tokens["primary"].sourceModifier)
           = Theme \o <<Dash>> \o input.item.modifierInputs[Theme]
    /\ input.resolver.resolutionOrder
           = <<ModifierRef(Theme), SetRef(Str("core")), SetRef(Str("core"))>>

====
